---- MODULE Spec2Model ----
(***************************************************************************)
(* Model of the Ekovision detection/tracking core:                         *)
(*   - src/src/tracking/bytetrack.py            (association engine)       *)
(*   - src/src/tracking/bottle_tracker.py       (lifecycle state machine)  *)
(*   - src/src/tracking/classification_cache.py (LRU result cache)         *)
(*   - src/src/temporal_smoother.py             (majority-vote smoother)   *)
(*   - src/src/tracking/trigger_zone.py         (trigger zone)             *)
(*   - src/src/tracking/pipeline.py             (per-frame orchestration)  *)
(*                                                                         *)
(* Scores and thresholds are percentages (0.9 is 90).  Rectangles have     *)
(* integer corners; IoU and matching costs are exact fractions <<n, d>>.   *)
(***************************************************************************)
EXTENDS Integers, Sequences, FiniteSets, TLC

(***************************************************************************)
(* Bounds of the model.                                                    *)
(***************************************************************************)
MaxFrames == 3        \* frames a tracker processes
MaxDets == 2          \* detections in one frame
MaxPipelineFrames == 4 \* frames a pipeline with max_tracks = MaxTracks processes
MaxPipelineTracks == 2 \* largest max_tracks a pipeline is built with
MaxWideFrames == 2    \* frames a pipeline with a larger max_tracks processes
MaxMultiFrames == 3   \* frames per tracker when several trackers run
MaxAge == 1           \* max_age / track_buffer the trackers are built with
MaxTracks == 1        \* max_tracks the lifecycle tracker is built with
MaxAttempts == 2      \* max_classification_attempts it is built with
MaxSkip == 1          \* largest skip_frames a pipeline is built with
MaxCacheSize == 2     \* largest max_size of a cache used on its own
MaxCacheKey == 3      \* cache keys are 1..MaxCacheKey
MaxThreadCalls == 3   \* cache calls started by the threads of one run
MaxCacheOps == 5      \* operations applied to such a cache
MaxRows == 2          \* rows of a cost matrix given to linear_assignment
MaxCols == 3          \* columns of such a matrix
MaxHeap == 4          \* dicts built by the caller of a cache and by its copies
MaxBuffer == 2        \* track_buffer of the engine used on its own
MaxRefGets == 2       \* get calls of such a caller

(***************************************************************************)
(* Program constants.                                                      *)
(***************************************************************************)
TrackThreshPct == 50
MatchThreshPct == 30
LowThreshPct == 10

\* The python None of a track identity that is not assigned yet.
None == "None"

\* An Optional[dict]: Nil is None, Some(d) is the dict d.
Nil == <<>>
Some(d) == <<d>>

\* Tracker instances living in one process.  BottleTracker owns Self.
Self == "A"
Other == "B"
Trackers == {Self, Other}

(***************************************************************************)
(* Inputs: rectangles <<x1, y1, x2, y2>> and scores of detections.         *)
(*   BoxMid, BoxNear overlap with IoU 2/3;  BoxFar is disjoint from both.  *)
(*   Score 5 is below the 0.1 floor, 50 equals track_thresh, 90 is high.   *)
(*   A frame's detections are a list of rectangles that differ pairwise.   *)
(***************************************************************************)
BoxMid == <<40, 40, 60, 60>>
BoxNear == <<44, 40, 64, 60>>
BoxFar == <<0, 0, 20, 20>>
Boxes == {BoxMid, BoxNear, BoxFar}
Scores == {5, 50, 90}
Detections == [tlbr : Boxes, score : Scores]

RECURSIVE SeqsUpTo(_, _)
SeqsUpTo(S, n) ==
  IF n = 0 THEN {<<>>}
  ELSE LET shorter == SeqsUpTo(S, n - 1)
       IN shorter \cup {Append(s, x) : s \in {q \in shorter : Len(q) = n - 1}, x \in S}

DistinctBoxes(s) == \A i, j \in DOMAIN s : i # j => s[i].tlbr # s[j].tlbr
DetectionLists == {s \in SeqsUpTo(Detections, MaxDets) : DistinctBoxes(s)}

\* Frames of at most one detection, of high score.
SingleHighLists == {<<>>} \cup {<<d>> : d \in {x \in Detections : x.score > TrackThreshPct}}

Range(s) == {s[i] : i \in DOMAIN s}

\* A python list built by a comprehension: the function as a sequence value.
List(f) == f \o <<>>
Max(a, b) == IF a >= b THEN a ELSE b
Min(a, b) == IF a <= b THEN a ELSE b

(***************************************************************************)
(* Geometry utilities: bytetrack.py                                        *)
(***************************************************************************)
\* iou_batch, one entry: the fraction intersection / max(union, 1e-6).
Iou(a, b) ==
  LET x1 == Max(a[1], b[1])
      y1 == Max(a[2], b[2])
      x2 == Min(a[3], b[3])
      y2 == Min(a[4], b[4])
      intersection == Max(0, x2 - x1) * Max(0, y2 - y1)
      area1 == (a[3] - a[1]) * (a[4] - a[2])
      area2 == (b[3] - b[1]) * (b[4] - b[2])
      union == area1 + area2 - intersection
  IN IF union > 0 THEN <<intersection, union>> ELSE <<0, 1>>

\* Order on fractions with positive denominators.
FracLess(p, q) == p[1] * q[2] < q[1] * p[2]
FracEq(p, q) == p[1] * q[2] = q[1] * p[2]

\* Position of entry <<i, j>> in the row-major scan of a matrix with m columns.
FlatIndex(i, j, m) == (i - 1) * m + j

\* cost_copy.argmin(): the first minimum in row-major order of the remaining
\* rows ua and columns ub (positions in ua, ub).
ArgMin(cost, ua, ub) ==
  CHOOSE p \in (1..Len(ua)) \X (1..Len(ub)) :
    \A q \in (1..Len(ua)) \X (1..Len(ub)) :
      /\ ~FracLess(cost[ua[q[1]]][ub[q[2]]], cost[ua[p[1]]][ub[p[2]]])
      /\ FracEq(cost[ua[q[1]]][ub[q[2]]], cost[ua[p[1]]][ub[p[2]]])
           => FlatIndex(p[1], p[2], Len(ub)) <= FlatIndex(q[1], q[2], Len(ub))

RemoveAt(s, i) == List([k \in 1..(Len(s) - 1) |-> IF k < i THEN s[k] ELSE s[k + 1]])

\* The greedy loop of linear_assignment.
RECURSIVE GreedyLoop(_, _, _, _, _)
GreedyLoop(cost, thresh, matches, ua, ub) ==
  IF Len(ua) = 0 \/ Len(ub) = 0
  THEN [matches |-> matches, unmatched_a |-> ua, unmatched_b |-> ub]
  ELSE LET p == ArgMin(cost, ua, ub)
           min_val == cost[ua[p[1]]][ub[p[2]]]
       IN IF FracLess(thresh, min_val)
          THEN [matches |-> matches, unmatched_a |-> ua, unmatched_b |-> ub]
          ELSE GreedyLoop(cost, thresh,
                          Append(matches, <<ua[p[1]], ub[p[2]]>>),
                          RemoveAt(ua, p[1]), RemoveAt(ub, p[2]))

\* A mutant of linear_assignment: every cost passes the threshold.
linear_assignment_any_cost(cost, n, m, thresh) ==
  GreedyLoop(cost, <<2, 1>>, <<>>, List([i \in 1..n |-> i]), List([j \in 1..m |-> j]))

\* linear_assignment(cost_matrix, thresh) for an n x m matrix.
linear_assignment(cost, n, m, thresh) ==
  GreedyLoop(cost, thresh, <<>>, List([i \in 1..n |-> i]), List([j \in 1..m |-> j]))

(***************************************************************************)
(* STrack: bytetrack.py                                                    *)
(***************************************************************************)
\* STrack.__init__
NewSTrack(tlbr, score) ==
  [tlbr |-> tlbr, score |-> score, track_id |-> None, is_activated |-> FALSE,
   tracklet_len |-> 0, frame_id |-> 0, start_frame |-> 0]

\* A mutant of next_id: the counter is not advanced.
next_id_stuck(count) == count

\* STrack.next_id: the new value of STrack._count, which is the identity.
next_id(count) == count + 1

\* STrack.reset_id: the value STrack._count is set to.
reset_id == 0

\* A mutant of activate: the track is left unconfirmed.
activate_unconfirmed(track, id, frame_id) ==
  [track EXCEPT !.track_id = id, !.tracklet_len = 0, !.frame_id = frame_id,
                !.start_frame = frame_id]

\* STrack.activate, given the identity next_id() returned.
activate(track, id, frame_id) ==
  [track EXCEPT !.track_id = id, !.tracklet_len = 0, !.frame_id = frame_id,
                !.start_frame = frame_id, !.is_activated = TRUE]

\* A mutant of strack_update: the tracklet length is not counted.
strack_update_same_len(track, new_track, frame_id) ==
  [track EXCEPT !.tlbr = new_track.tlbr, !.score = new_track.score,
                !.frame_id = frame_id, !.is_activated = TRUE]

\* STrack.update
strack_update(track, new_track, frame_id) ==
  [track EXCEPT !.tlbr = new_track.tlbr, !.score = new_track.score,
                !.tracklet_len = track.tracklet_len + 1,
                !.frame_id = frame_id, !.is_activated = TRUE]

\* A mutant of mark_lost: the track stays activated.
mark_lost_skipped(track) == track

\* STrack.mark_lost
mark_lost(track) == [track EXCEPT !.is_activated = FALSE]

\* STrack.mark_removed
mark_removed(track) == [track EXCEPT !.is_activated = FALSE]

(***************************************************************************)
(* BYTETracker: bytetrack.py                                               *)
(***************************************************************************)
\* BYTETracker.__init__
NewBYTETracker(track_thresh, track_buffer, match_thresh) ==
  [track_thresh |-> track_thresh, track_buffer |-> track_buffer,
   match_thresh |-> match_thresh,
   tracked_stracks |-> <<>>, lost_stracks |-> <<>>, removed_stracks |-> <<>>,
   frame_id |-> 0]

\* BYTETracker._match: cost = 1 - IoU, threshold 1 - match_thresh.
Match(bt, tracks, detections) ==
  IF Len(tracks) = 0 \/ Len(detections) = 0
  THEN [matches |-> <<>>,
        unmatched_a |-> List([i \in 1..Len(tracks) |-> i]),
        unmatched_b |-> List([j \in 1..Len(detections) |-> j])]
  ELSE LET cost == List([i \in 1..Len(tracks) |-> List([j \in 1..Len(detections) |->
                     LET iou == Iou(tracks[i].tlbr, detections[j].tlbr)
                     IN <<iou[2] - iou[1], iou[2]>>])])
       IN linear_assignment(cost, Len(tracks), Len(detections),
                            <<100 - bt.match_thresh, 100>>)

\* The tracks a matching stage updates, in match order.
UpdatedBy(matches, tracks, detections, frame_id) ==
  List([k \in 1..Len(matches) |->
     strack_update(tracks[matches[k][1]], detections[matches[k][2]], frame_id)])

Pick(s, idx) == List([k \in 1..Len(idx) |-> s[idx[k]]])

\* "Initialize new tracks": activates the left-over detections in order,
\* drawing one identity each from the shared counter.
RECURSIVE InitNewTracks(_, _, _, _, _)
InitNewTracks(bt, cands, frame_id, count, acc) ==
  IF Len(cands) = 0 THEN [tracks |-> acc, count |-> count]
  ELSE IF Head(cands).score < bt.track_thresh
       THEN InitNewTracks(bt, Tail(cands), frame_id, count, acc)
       ELSE InitNewTracks(bt, Tail(cands), frame_id, next_id(count),
                          Append(acc, activate(Head(cands), next_id(count), frame_id)))

\* A mutant of merge_tracked: as in the reference ByteTrack, a track started
\* after the first frame is stored unconfirmed.
merge_tracked_unconfirmed(activated_stracks) ==
  [k \in DOMAIN activated_stracks |->
     IF activated_stracks[k].tracklet_len = 0 /\ activated_stracks[k].start_frame > 1
     THEN [activated_stracks[k] EXCEPT !.is_activated = FALSE]
     ELSE activated_stracks[k]]

\* update(), "Merge lists": the new self.tracked_stracks.
merge_tracked(activated_stracks) ==
  LET Activated(t) == t.is_activated
  IN SelectSeq(activated_stracks, Activated)

\* BYTETracker.update(detections) on tracker state bt with STrack._count = count.
\* Returns the new tracker state, the new counter and the returned track list.
BYTETracker_update(bt, count, detections) ==
  LET frame_id == bt.frame_id + 1
  IN IF Len(detections) = 0
     THEN [bt |-> [bt EXCEPT !.frame_id = frame_id,
                            !.tracked_stracks = <<>>,
                            !.lost_stracks =
                               List([k \in 1..Len(bt.tracked_stracks) |->
                                       mark_lost(bt.tracked_stracks[k])])],
           count |-> count, out |-> <<>>]
     ELSE
       LET IsHigh(d) == d.score > bt.track_thresh
           IsLow(d) == d.score > LowThreshPct /\ ~IsHigh(d)
           dets == SelectSeq(detections, IsHigh)
           dets_low == SelectSeq(detections, IsLow)
           detections_high == List([k \in 1..Len(dets) |->
                                  NewSTrack(dets[k].tlbr, dets[k].score)])
           detections_low == List([k \in 1..Len(dets_low) |->
                                 NewSTrack(dets_low[k].tlbr, dets_low[k].score)])
           Activated(t) == t.is_activated
           NotActivated(t) == ~t.is_activated
           unconfirmed == SelectSeq(bt.tracked_stracks, NotActivated)
           strack_pool == SelectSeq(bt.tracked_stracks, Activated)
           \* first association, high score detections
           m1 == Match(bt, strack_pool, detections_high)
           act1 == UpdatedBy(m1.matches, strack_pool, detections_high, frame_id)
           \* second association, low score detections
           r_tracked_stracks == Pick(strack_pool, m1.unmatched_a)
           m2 == Match(bt, r_tracked_stracks, detections_low)
           act2 == UpdatedBy(m2.matches, r_tracked_stracks, detections_low, frame_id)
           lost == List([k \in 1..Len(m2.unmatched_a) |->
                       mark_lost(r_tracked_stracks[m2.unmatched_a[k]])])
           \* unconfirmed tracks against the detections left by the first stage
           detections_left == Pick(detections_high, m1.unmatched_b)
           m3 == Match(bt, unconfirmed, detections_left)
           act3 == UpdatedBy(m3.matches, unconfirmed, detections_left, frame_id)
           removed3 == List([k \in 1..Len(m3.unmatched_a) |->
                           mark_removed(unconfirmed[m3.unmatched_a[k]])])
           \* new tracks
           fresh == InitNewTracks(bt, Pick(detections_left, m3.unmatched_b),
                                  frame_id, count, <<>>)
           \* lost tracks older than the buffer
           Expired(t) == frame_id - t.frame_id > bt.track_buffer
           expired == SelectSeq(bt.lost_stracks, Expired)
           removed == removed3 \o [k \in 1..Len(expired) |-> mark_removed(expired[k])]
           activated_stracks == act1 \o act2 \o act3 \o fresh.tracks
           tracked == merge_tracked(activated_stracks)
       IN \* "t not in removed_stracks" compares objects: the tracks lost in this
          \* frame come from strack_pool, the removed ones from unconfirmed and
          \* from the old lost list, so the filter drops nothing.
          [bt |-> [bt EXCEPT !.frame_id = frame_id,
                            !.tracked_stracks = tracked,
                            !.lost_stracks = lost,
                            !.removed_stracks = bt.removed_stracks \o removed],
           count |-> fresh.count, out |-> tracked]

\* BYTETracker.reset: the tracker state afterwards (the counter is reset too).
BYTETracker_reset(bt) ==
  [bt EXCEPT !.tracked_stracks = <<>>, !.lost_stracks = <<>>,
             !.removed_stracks = <<>>, !.frame_id = 0]

\* The identities of a track list, in order.
IdsOf(stracks) == List([k \in 1..Len(stracks) |-> stracks[k].track_id])

\* The identities update() assigned: those of tracks started in this frame.
NewIdsOf(out, frame_id) ==
  LET Started(t) == t.start_frame = frame_id /\ t.tracklet_len = 0
  IN IdsOf(SelectSeq(out, Started))


(***************************************************************************)
(* BottleTrack and BottleTracker: bottle_tracker.py                        *)
(* self.tracks is a dict in insertion order: a sequence of BottleTrack     *)
(* records with pairwise different track_id.                               *)
(***************************************************************************)
TrackingState == {"NEW", "TRACKED", "CLASSIFIED", "FAILED"}

\* A mutant of the BottleTrack(...) built by update: it starts TRACKED.
NewBottleTrack_tracked(strack) ==
  [track_id |-> strack.track_id, bbox |-> strack.tlbr, confidence |-> strack.score,
   state |-> "TRACKED", frames_since_update |-> 0,
   classification_results |-> Nil, classification_attempts |-> 0]

\* The BottleTrack(...) built for an identity not yet in self.tracks.
NewBottleTrack(strack) ==
  [track_id |-> strack.track_id, bbox |-> strack.tlbr, confidence |-> strack.score,
   state |-> "NEW", frames_since_update |-> 0,
   classification_results |-> Nil, classification_attempts |-> 0]

\* BottleTracker.__init__ (the BYTETracker it builds is byte_tracker[Self]).
NewBottleTracker(max_age, max_classification_attempts, max_tracks) ==
  [max_age |-> max_age, max_classification_attempts |-> max_classification_attempts,
   max_tracks |-> max_tracks, tracks |-> <<>>, frame_count |-> 0]

\* Position of track_id in the dict, 0 when it is no key.
IndexOf(tracks, track_id) ==
  IF \E k \in DOMAIN tracks : tracks[k].track_id = track_id
  THEN CHOOSE k \in DOMAIN tracks : tracks[k].track_id = track_id
  ELSE 0

\* BottleTracker.get_track_by_id: Nil (None) or the track.
get_track_by_id(tk, track_id) ==
  IF IndexOf(tk.tracks, track_id) = 0 THEN Nil
  ELSE Some(tk.tracks[IndexOf(tk.tracks, track_id)])

\* A mutant of refresh: every refreshed track becomes TRACKED.
refresh_retracked(bottle_track, strack) ==
  [bottle_track EXCEPT !.bbox = strack.tlbr, !.confidence = strack.score,
                       !.frames_since_update = 0, !.state = "TRACKED"]

\* update(), "if track_id in self.tracks": the existing BottleTrack takes the
\* rectangle and the score of the STrack; NEW becomes TRACKED.
refresh(bottle_track, strack) ==
  [bottle_track EXCEPT !.bbox = strack.tlbr, !.confidence = strack.score,
                       !.frames_since_update = 0,
                       !.state = IF @ = "NEW" THEN "TRACKED" ELSE @]

\* update(), first loop: refresh or create the BottleTrack of every STrack.
RECURSIVE UpdateOrCreate(_, _)
UpdateOrCreate(tracks, stracks) ==
  IF Len(stracks) = 0 THEN tracks
  ELSE LET strack == Head(stracks)
           k == IndexOf(tracks, strack.track_id)
       IN IF k # 0
          THEN UpdateOrCreate([tracks EXCEPT ![k] = refresh(@, strack)],
                              Tail(stracks))
          ELSE UpdateOrCreate(Append(tracks, NewBottleTrack(strack)), Tail(stracks))

\* update(), second loop: age the tracks that are not in the current frame.
AgeAbsent(tracks, current_track_ids) ==
  List([k \in 1..Len(tracks) |->
         IF tracks[k].track_id \in current_track_ids THEN tracks[k]
         ELSE [tracks[k] EXCEPT !.frames_since_update = @ + 1]])

\* A mutant of _enforce_track_limit: nothing is dropped.
enforce_track_limit_keep_all(tracks, max_tracks) == tracks

\* A mutant of _enforce_track_limit: the first max_tracks in dict order stay.
enforce_track_limit_unsorted(tracks, max_tracks) ==
  SubSeq(tracks, 1, Min(max_tracks, Len(tracks)))

\* sorted(..., key=confidence, reverse=True): stable, so equal confidences
\* keep their dict order.
RECURSIVE SortByConfidence(_, _)
SortByConfidence(todo, done) ==
  IF Len(todo) = 0 THEN done
  ELSE LET x == Head(todo)
           Before(t) == t.confidence >= x.confidence
           After(t) == t.confidence < x.confidence
       IN SortByConfidence(Tail(todo),
            SelectSeq(done, Before) \o <<x>> \o SelectSeq(done, After))

\* BottleTracker._enforce_track_limit: the new self.tracks.
enforce_track_limit(tracks, max_tracks) ==
  SubSeq(SortByConfidence(tracks, <<>>), 1, Min(max_tracks, Len(tracks)))

\* get_active_tracks / the list update() returns.
ActiveTracks(tracks) ==
  LET Active(t) == t.frames_since_update = 0
  IN SelectSeq(tracks, Active)

\* A mutant of the age test of update: a track lives one frame longer.
exceeds_max_age_late(frames_since_update, max_age) ==
  frames_since_update > max_age + 1

\* update(): "if bottle_track.frames_since_update > self.max_age"
exceeds_max_age(frames_since_update, max_age) == frames_since_update > max_age

\* update() up to the deletion of the tracks that exceeded max_age: self.tracks
\* as the capacity test finds it.
before_limit(tk, stracks) ==
  LET current_track_ids == Range(IdsOf(stracks))
      upserted == UpdateOrCreate(tk.tracks, stracks)
      aged == AgeAbsent(upserted, current_track_ids)
      Kept(t) == ~(t.track_id \notin current_track_ids
                   /\ exceeds_max_age(t.frames_since_update, tk.max_age))
  IN SelectSeq(aged, Kept)

\* BottleTracker.update after byte_tracker.update returned stracks.
BottleTracker_update(tk, stracks) ==
  LET remaining == before_limit(tk, stracks)
      limited == IF Len(remaining) > tk.max_tracks
                 THEN enforce_track_limit(remaining, tk.max_tracks)
                 ELSE remaining
  IN [tk |-> [tk EXCEPT !.tracks = limited, !.frame_count = @ + 1],
      active |-> ActiveTracks(limited)]

\* A mutant of mark_classified: the results are not stored.
mark_classified_state_only(tk, track_id, classification_results) ==
  LET k == IndexOf(tk.tracks, track_id)
  IN IF k = 0 THEN tk ELSE [tk EXCEPT !.tracks[k].state = "CLASSIFIED"]

\* BottleTracker.mark_classified
mark_classified(tk, track_id, classification_results) ==
  LET k == IndexOf(tk.tracks, track_id)
  IN IF k = 0 THEN tk
     ELSE [tk EXCEPT !.tracks[k].state = "CLASSIFIED",
                     !.tracks[k].classification_results = Some(classification_results)]

\* BottleTracker.mark_failed
mark_failed(tk, track_id) ==
  LET k == IndexOf(tk.tracks, track_id)
  IN IF k = 0 THEN tk ELSE [tk EXCEPT !.tracks[k].state = "FAILED"]

\* A mutant of increment_classification_attempts: the track never fails.
increment_classification_attempts_only(tk, track_id) ==
  LET k == IndexOf(tk.tracks, track_id)
  IN IF k = 0 THEN tk
     ELSE [tk EXCEPT !.tracks[k].classification_attempts = @ + 1]

\* BottleTracker.increment_classification_attempts
increment_classification_attempts(tk, track_id) ==
  LET k == IndexOf(tk.tracks, track_id)
  IN IF k = 0 THEN tk
     ELSE LET attempts == tk.tracks[k].classification_attempts + 1
          IN [tk EXCEPT !.tracks[k].classification_attempts = attempts,
                        !.tracks[k].state =
                           IF attempts >= tk.max_classification_attempts
                           THEN "FAILED" ELSE @]

\* A mutant of should_classify: the state of the track is not looked at.
should_classify_any_state(tk, track_id) ==
  \E k \in DOMAIN tk.tracks :
    /\ tk.tracks[k].track_id = track_id
    /\ tk.tracks[k].classification_attempts < tk.max_classification_attempts

\* BottleTracker.should_classify
should_classify(tk, track_id) ==
  LET track == get_track_by_id(tk, track_id)
  IN /\ track # Nil
     /\ track[1].state \in {"NEW", "TRACKED"}
     /\ track[1].classification_attempts < tk.max_classification_attempts

\* BottleTracker.reset: self.tracks and frame_count (byte_tracker.reset apart).
BottleTracker_reset(tk) == [tk EXCEPT !.tracks = <<>>, !.frame_count = 0]

(***************************************************************************)
(* ClassificationCache: classification_cache.py                            *)
(* self._cache is an OrderedDict: a sequence of [key, value] entries, the  *)
(* least recently used first.                                              *)
(***************************************************************************)
\* ClassificationCache.__init__
NewCache(max_size) ==
  [max_size |-> max_size, entries |-> <<>>, hits |-> 0, misses |-> 0, size |-> 0]

KeyIndex(entries, key) ==
  IF \E k \in DOMAIN entries : entries[k].key = key
  THEN CHOOSE k \in DOMAIN entries : entries[k].key = key
  ELSE 0

Keys(entries) == {entries[k].key : k \in DOMAIN entries}

\* A mutant of move_to_end: the order is left as it is.
move_to_end_skipped(entries, key) == entries

\* OrderedDict.move_to_end(key)
move_to_end(entries, key) ==
  LET k == KeyIndex(entries, key)
  IN Append(RemoveAt(entries, k), entries[k])

\* OrderedDict.popitem(last=False)
popitem_first(entries) == Tail(entries)

\* A mutant of the eviction test of put: the cache is allowed one more entry.
over_capacity_late(entries, max_size) == Len(entries) > max_size + 1

\* put: "if len(self._cache) > self.max_size"
over_capacity(entries, max_size) == Len(entries) > max_size

\* ClassificationCache.get: the cache afterwards and the value returned.
cache_get(c, track_id) ==
  IF track_id \in Keys(c.entries)
  THEN [cache |-> [c EXCEPT !.entries = move_to_end(c.entries, track_id),
                            !.hits = @ + 1],
        ret |-> Some(c.entries[KeyIndex(c.entries, track_id)].value)]
  ELSE [cache |-> [c EXCEPT !.misses = @ + 1], ret |-> Nil]

\* ClassificationCache.put
cache_put(c, track_id, results) ==
  LET stored ==
        IF track_id \in Keys(c.entries)
        THEN move_to_end(
               [c.entries EXCEPT ![KeyIndex(c.entries, track_id)].value = results],
               track_id)
        ELSE LET added == Append(c.entries, [key |-> track_id, value |-> results])
             IN IF over_capacity(added, c.max_size) THEN popitem_first(added)
                ELSE added
  IN [c EXCEPT !.entries = stored, !.size = Len(stored)]

\* ClassificationCache.remove: the cache afterwards and the value returned.
cache_remove(c, track_id) ==
  IF track_id \in Keys(c.entries)
  THEN LET left == RemoveAt(c.entries, KeyIndex(c.entries, track_id))
       IN [cache |-> [c EXCEPT !.entries = left, !.size = Len(left)], ret |-> TRUE]
  ELSE [cache |-> c, ret |-> FALSE]

\* ClassificationCache.clear
cache_clear(c) == [c EXCEPT !.entries = <<>>, !.size = 0]

\* ClassificationCache.contains
cache_contains(c, track_id) == track_id \in Keys(c.entries)

\* ClassificationCache.get_size
cache_get_size(c) == Len(c.entries)

(***************************************************************************)
(* TemporalSmoother: temporal_smoother.py                                  *)
(* self.history maps an identity to its list of predictions.               *)
(***************************************************************************)
\* TemporalSmoother.__init__
NewSmoother(window_size) == [window_size |-> window_size, history |-> <<>>]

HistoryOf(sm, track_id) ==
  IF track_id \in DOMAIN sm.history THEN sm.history[track_id] ELSE <<>>

Count(values, v) == Cardinality({k \in DOMAIN values : values[k] = v})

\* A mutant of MostCommon: among equally frequent values the one met last.
MostCommon_last(values) ==
  LET last == CHOOSE k \in DOMAIN values :
                /\ \A j \in DOMAIN values : Count(values, values[j]) <= Count(values, values[k])
                /\ \A j \in (k + 1)..Len(values) :
                     values[j] = values[k] \/ Count(values, values[j]) < Count(values, values[k])
                /\ \A j \in (k + 1)..Len(values) : values[j] # values[k]
  IN values[last]

\* Counter(values).most_common(1)[0][0]: the most frequent value, the one met
\* first among equally frequent ones.
MostCommon(values) ==
  LET first == CHOOSE k \in DOMAIN values :
                 /\ \A j \in DOMAIN values : Count(values, values[j]) <= Count(values, values[k])
                 /\ \A j \in 1..(k - 1) : Count(values, values[j]) < Count(values, values[k])
  IN values[first]

\* TemporalSmoother._vote
vote(predictions) ==
  [key \in DOMAIN predictions[1] |->
     MostCommon(List([k \in 1..Len(predictions) |-> predictions[k][key]]))]

\* A mutant of trim: the newest entry is dropped.
trim_newest(appended, window_size) ==
  IF Len(appended) > window_size THEN SubSeq(appended, 1, Len(appended) - 1)
  ELSE appended

\* if len(self.history[track_id]) > self.window_size: self.history[track_id].pop(0)
trim(appended, window_size) ==
  IF Len(appended) > window_size THEN Tail(appended) ELSE appended

\* TemporalSmoother.smooth: the smoother afterwards and the value returned.
smooth(sm, track_id, current_pred) ==
  LET appended == Append(HistoryOf(sm, track_id), current_pred)
      window == trim(appended, sm.window_size)
      history == [id \in DOMAIN sm.history \cup {track_id} |->
                    IF id = track_id THEN window ELSE sm.history[id]]
  IN [smoother |-> [sm EXCEPT !.history = history],
      ret |-> IF Len(window) < 2 THEN current_pred ELSE vote(window)]

\* TemporalSmoother.clear_track
clear_track(sm, track_id) ==
  [sm EXCEPT !.history = [id \in DOMAIN sm.history \ {track_id} |-> sm.history[id]]]

\* A mutant of clear_all: the histories stay.
clear_all_skipped(sm) == sm

\* TemporalSmoother.clear_all
clear_all(sm) == [sm EXCEPT !.history = <<>>]

(***************************************************************************)
(* TriggerZoneConfig and TriggerZone: trigger_zone.py                      *)
(***************************************************************************)
\* A percentage is a Python float: <<n>> for the number n, NaN for
\* float('nan').
NaN == <<>>
Num(n) == <<n>>

\* Python's <= and > on floats: every comparison with NaN is false.
Leq(a, b) == a # NaN /\ b # NaN /\ a[1] <= b[1]
Gt(a, b) == a # NaN /\ b # NaN /\ a[1] > b[1]

\* Python's + and - on floats: NaN propagates.
Add(a, b) == IF a = NaN \/ b = NaN THEN NaN ELSE Num(a[1] + b[1])
Sub(a, b) == IF a = NaN \/ b = NaN THEN NaN ELSE Num(a[1] - b[1])

\* The dataclass defaults of TriggerZoneConfig.
DefaultZoneConfig ==
  [x_offset_pct |-> Num(30), y_offset_pct |-> Num(20),
   width_pct |-> Num(40), height_pct |-> Num(60)]

\* TriggerZoneConfig.validate
validate(cfg) ==
  /\ Leq(Num(0), cfg.x_offset_pct) /\ Leq(cfg.x_offset_pct, Num(50))
  /\ Leq(Num(0), cfg.y_offset_pct) /\ Leq(cfg.y_offset_pct, Num(50))
  /\ Leq(Num(20), cfg.width_pct) /\ Leq(cfg.width_pct, Num(80))
  /\ Leq(Num(20), cfg.height_pct) /\ Leq(cfg.height_pct, Num(80))
  /\ ~Gt(Add(cfg.x_offset_pct, cfg.width_pct), Num(100))
  /\ ~Gt(Add(cfg.y_offset_pct, cfg.height_pct), Num(100))

\* np.clip: NaN stays NaN.
clip(x, lo, hi) == IF x = NaN THEN NaN ELSE Num(Min(Max(x[1], lo), hi))

\* A mutant of clamp: the configuration is kept as it is.
clamp_skipped(cfg) == cfg

\* TriggerZoneConfig.clamp
clamp(cfg) ==
  LET x_offset == clip(cfg.x_offset_pct, 0, 50)
      y_offset == clip(cfg.y_offset_pct, 0, 50)
      width == clip(cfg.width_pct, 20, 80)
      height == clip(cfg.height_pct, 20, 80)
  IN [x_offset_pct |-> x_offset, y_offset_pct |-> y_offset,
      width_pct |-> IF Gt(Add(x_offset, width), Num(100))
                    THEN Sub(Num(100), x_offset) ELSE width,
      height_pct |-> IF Gt(Add(y_offset, height), Num(100))
                     THEN Sub(Num(100), y_offset) ELSE height]

\* A mutant of int_pixels: the quotient is rounded to the nearest integer.
int_pixels_rounded(length, pct) == (length * pct[1] + 50) \div 100

\* int(length * pct / 100) for a number pct: truncation towards zero.
int_pixels(length, pct) ==
  IF length * pct[1] >= 0 THEN (length * pct[1]) \div 100
  ELSE -((-(length * pct[1])) \div 100)

\* TriggerZone._update_boundaries on a zone whose config is already stored.
\* Lines 103-106 assign x1, y1, x2, y2 in this order; int() of NaN raises
\* ValueError, which leaves the earlier assignments in place and skips the
\* rest, lines 109-112 included.
update_boundaries(zone) ==
  LET cfg == zone.config
      pct == <<cfg.x_offset_pct, cfg.y_offset_pct,
               Add(cfg.x_offset_pct, cfg.width_pct),
               Add(cfg.y_offset_pct, cfg.height_pct)>>
      length == <<zone.frame_width, zone.frame_height,
                  zone.frame_width, zone.frame_height>>
      old == <<zone.bounds.x1, zone.bounds.y1, zone.bounds.x2, zone.bounds.y2>>
      failed == {k \in 1..4 : pct[k] = NaN}
      stop == IF failed = {} THEN 5 ELSE CHOOSE k \in failed : \A j \in failed : k <= j
      new == [k \in 1..4 |->
                IF stop = 5 THEN Max(0, Min(int_pixels(length[k], pct[k]), length[k]))
                ELSE IF k < stop THEN int_pixels(length[k], pct[k])
                ELSE old[k]]
  IN [zone |-> [zone EXCEPT !.bounds = [x1 |-> new[1], y1 |-> new[2],
                                        x2 |-> new[3], y2 |-> new[4]]],
      raised |-> stop # 5]

\* TriggerZone.update_config: the zone after the call and whether it raised.
update_config_call(zone, config) ==
  update_boundaries([zone EXCEPT !.config = IF validate(config) THEN config
                                            ELSE clamp(config)])

\* TriggerZone.update_config
update_config(zone, config) == update_config_call(zone, config).zone

\* TriggerZone.__init__: the object after the call and whether it raised (no
\* object is bound then).
init_call(frame_width, frame_height, config) ==
  update_config_call([frame_width |-> frame_width, frame_height |-> frame_height,
                      config |-> config,
                      bounds |-> [x1 |-> 0, y1 |-> 0, x2 |-> 0, y2 |-> 0]], config)

\* TriggerZone.__init__
NewTriggerZone(frame_width, frame_height, config) ==
  init_call(frame_width, frame_height, config).zone

\* BottleTrack.get_center, doubled: <<x1 + x2, y1 + y2>>.
get_center2(bbox) == <<bbox[1] + bbox[3], bbox[2] + bbox[4]>>

\* A mutant of contains_point: the bounds are exclusive.
contains_point2_strict(zone, c2) ==
  /\ 2 * zone.bounds.x1 < c2[1] /\ c2[1] < 2 * zone.bounds.x2
  /\ 2 * zone.bounds.y1 < c2[2] /\ c2[2] < 2 * zone.bounds.y2

\* TriggerZone.contains_point applied to a doubled point.
contains_point2(zone, c2) ==
  /\ 2 * zone.bounds.x1 <= c2[1] /\ c2[1] <= 2 * zone.bounds.x2
  /\ 2 * zone.bounds.y1 <= c2[2] /\ c2[2] <= 2 * zone.bounds.y2

(***************************************************************************)
(* DetectionTrackingPipeline: pipeline.py                                  *)
(***************************************************************************)
\* The frame size the pipeline is built for.
FrameSize == [width |-> 100, height |-> 250]

\* What _classify_bottle returns: Nil (None, the external path failed) or a
\* resolved mapping attribute -> label.
Results == {[brand |-> "Aqua"], [brand |-> "Cleo"]}
Outcomes == {Nil} \cup {Some(r) : r \in Results}

\* Probabilities are in thousandths, so that proba*100 has one decimal.
\* f"{proba*100:.1f}%"
format_percent(proba) == ToString(proba \div 10) \o "." \o ToString(proba % 10) \o "%"

\* dict(zip(self.mlb.classes_, Y_proba)) read with .get(label, 0.0)
class_proba_get(classes, Y_proba, label) ==
  IF \E k \in DOMAIN classes : classes[k] = label
  THEN Y_proba[CHOOSE k \in DOMAIN classes : classes[k] = label]
  ELSE 0

\* A mutant of predicted_labels_set: the binary cut is at 0.6.
predicted_labels_set_high(classes, Y_proba) ==
  {classes[k] : k \in {j \in DOMAIN classes : Y_proba[j] > 600}}

\* set(mlb.inverse_transform(Y_proba > 0.5)[0])
predicted_labels_set(classes, Y_proba) ==
  {classes[k] : k \in {j \in DOMAIN classes : Y_proba[j] > 500}}

\* The loop over mapping_dict[col] that finds best_proba and best_label,
\* starting from -1 and "UNKNOWN"; only a strictly greater value replaces.
RECURSIVE best_in_category(_, _, _, _)
best_in_category(labels, classes, Y_proba, best) ==
  IF Len(labels) = 0 THEN best
  ELSE LET proba == class_proba_get(classes, Y_proba, Head(labels))
       IN best_in_category(Tail(labels), classes, Y_proba,
                           IF proba > best.proba
                           THEN [proba |-> proba, label |-> Head(labels)]
                           ELSE best)

\* A mutant of commit_single: the label is annotated like a fallback.
commit_single_annotated(intersection, best) ==
  best.label \o " (" \o format_percent(best.proba) \o ")"

\* len(intersection) == 1: intersection.pop()
commit_single(intersection, best) == CHOOSE label \in intersection : TRUE

\* A mutant of commit_fallback: the threshold itself does not qualify.
commit_fallback_strict(best, confidence_threshold) ==
  IF best.proba > confidence_threshold
  THEN best.label \o " (" \o format_percent(best.proba) \o ")"
  ELSE "UNKNOWN"

\* len(intersection) == 0
commit_fallback(best, confidence_threshold) ==
  IF best.proba >= confidence_threshold
  THEN best.label \o " (" \o format_percent(best.proba) \o ")"
  ELSE "UNKNOWN"

\* A mutant of commit_conflict: the best label is committed plainly.
commit_conflict_plain(best) == best.label

\* len(intersection) > 1
commit_conflict(best) ==
  "CONFLICT -> " \o best.label \o " (" \o format_percent(best.proba) \o ")"

\* The mapping logic of _classify_bottle: final_output over label_columns.
final_output(classes, Y_proba, mapping_dict, label_columns, confidence_threshold) ==
  [col \in Range(label_columns) |->
     LET intersection == predicted_labels_set(classes, Y_proba)
                           \cap Range(mapping_dict[col])
         best == best_in_category(mapping_dict[col], classes, Y_proba,
                                  [proba |-> -1000, label |-> "UNKNOWN"])
     IN IF Cardinality(intersection) = 1 THEN commit_single(intersection, best)
        ELSE IF Cardinality(intersection) = 0
        THEN commit_fallback(best, confidence_threshold)
        ELSE commit_conflict(best)]

\* _detect_bottles: the detector's boxes with conf >= confidence_threshold.
detect_bottles(raw, confidence_threshold) ==
  LET Kept(d) == d.score >= confidence_threshold
  IN SelectSeq(raw, Kept)

\* DetectionTrackingPipeline.__init__: the counters and the skip-frame state.
NewPipeline(skip_frames) ==
  [frame_count |-> 0, classification_count |-> 0, skip_frames |-> skip_frames,
   confidence_threshold |-> TrackThreshPct, detection_frame_counter |-> 0, last_detections |-> <<>>]

\* A mutant of should_trigger_classification: only NEW objects trigger.
should_trigger_classification_new_only(tk, zone, track) ==
  /\ track.state = "NEW"
  /\ contains_point2(zone, get_center2(track.bbox))
  /\ should_classify(tk, track.track_id)

\* _should_trigger_classification(track)
should_trigger_classification(tk, zone, track) ==
  /\ track.state \in {"NEW", "TRACKED"}
  /\ contains_point2(zone, get_center2(track.bbox))
  /\ should_classify(tk, track.track_id)

\* The identities of the tracks of a frame that trigger classification.
TriggerIds(tk, zone, tracks) ==
  {tracks[k].track_id : k \in {j \in DOMAIN tracks :
                                 should_trigger_classification(tk, zone, tracks[j])}}

\* process_frame, step 3: the loop over the frame's tracks.  outcome[id] is
\* what _classify_bottle returns for the track id.  st holds the tracker, the
\* cache, the smoother and the classification count.
RECURSIVE ClassifyLoop(_, _, _, _)
ClassifyLoop(st, zone, tracks, outcome) ==
  IF Len(tracks) = 0 THEN st
  ELSE LET track_id == Head(tracks).track_id
           k == IndexOf(st.tracker.tracks, track_id)
       IN IF k = 0 \/ ~should_trigger_classification(st.tracker, zone, st.tracker.tracks[k])
          THEN ClassifyLoop(st, zone, Tail(tracks), outcome)
          ELSE IF outcome[track_id] # Nil
          THEN LET sm == IF st.smoother # Nil
                         THEN smooth(st.smoother[1], track_id, outcome[track_id][1])
                         ELSE [smoother |-> Nil, ret |-> outcome[track_id][1]]
               IN ClassifyLoop(
                    [tracker |-> mark_classified(st.tracker, track_id, sm.ret),
                     cache |-> cache_put(st.cache, track_id, sm.ret),
                     smoother |-> IF st.smoother # Nil THEN Some(sm.smoother) ELSE Nil,
                     classification_count |-> st.classification_count + 1],
                    zone, Tail(tracks), outcome)
          ELSE ClassifyLoop(
                 [st EXCEPT !.tracker =
                    increment_classification_attempts(st.tracker, track_id)],
                 zone, Tail(tracks), outcome)

\* _render_frame: cache.get for every track drawn as CLASSIFIED.
RECURSIVE RenderLoop(_, _, _)
RenderLoop(c, tk, tracks) ==
  IF Len(tracks) = 0 THEN c
  ELSE LET k == IndexOf(tk.tracks, Head(tracks).track_id)
       IN IF k # 0 /\ tk.tracks[k].state = "CLASSIFIED"
             /\ tk.tracks[k].classification_results # Nil
          THEN RenderLoop(cache_get(c, Head(tracks).track_id).cache, tk, Tail(tracks))
          ELSE RenderLoop(c, tk, Tail(tracks))

\* Program constants of the pipeline's construction.
PipelineCacheSize == 100
TemporalWindowSize == 5

(***************************************************************************)
(* State.                                                                  *)
(***************************************************************************)
VARIABLES
  STrack_count,       \* STrack._count, shared by every tracker of the process
  byte_tracker,       \* [Trackers -> BYTETracker]; byte_tracker[Self] is the
                      \* engine of the BottleTracker
  tracker,            \* the BottleTracker (the pipeline's self.tracker)
  trigger_zone,       \* the pipeline's TriggerZone
  cache,              \* the ClassificationCache
  temporal_smoother,  \* Nil or Some(TemporalSmoother)
  pipeline,           \* counters and skip-frame state of the pipeline
  last_call,          \* history: the last operation, its arguments and result
  assigned,           \* history: identities each tracker assigned since its reset
  invoked,            \* history: identity -> classification calls since reset
  terminal,           \* history: identities seen CLASSIFIED or FAILED at the
                      \* end of a frame and returned by the engine ever since
  recency,            \* history: a clock of cache calls, and for each key the
                      \* time of its insertion and of its last put or get hit
  threads,            \* the threads calling the cache: the lock, each thread's
                      \* position in its call, and the same calls run one by one
  refs                \* the dicts of a caller of the cache, by reference: the
                      \* heap, the references the caller holds, and history

vars == <<STrack_count, byte_tracker, tracker, trigger_zone, cache,
          temporal_smoother, pipeline, last_call, assigned, invoked, terminal,
          recency, threads, refs>>

NoCall == [name |-> "none"]

CacheKeys == 1..MaxCacheKey

NoRecency == [now |-> 0, last |-> [k \in CacheKeys |-> 0],
              inserted |-> [k \in CacheKeys |-> 0]]

CacheThreads == {"T1", "T2"}

NoRefs == [heap |-> <<>>, held |-> {}, put_value |-> <<>>, put_arg |-> <<>>,
           got |-> [k \in CacheKeys |-> {}]]

NoThreads(c) ==
  [lock |-> "free", pc |-> [t \in CacheThreads |-> "idle"],
   op |-> [t \in CacheThreads |-> [name |-> "none", key |-> 0, value |-> Nil]],
   found |-> [t \in CacheThreads |-> FALSE],
   ret |-> [t \in CacheThreads |-> <<>>],
   raised |-> FALSE, started |-> 0, last_op |-> [name |-> "none", key |-> 0, value |-> Nil],
   serial |-> c, serial_ret |-> [t \in CacheThreads |-> <<>>]]

InitEngine ==
  /\ STrack_count = 0
  /\ byte_tracker = [t \in Trackers |->
                       NewBYTETracker(TrackThreshPct, MaxAge, MatchThreshPct)]
  /\ assigned = [t \in Trackers |-> <<>>]

InitLifecycle ==
  /\ tracker = NewBottleTracker(MaxAge, MaxAttempts, MaxTracks)

InitComponents ==
  /\ trigger_zone = NewTriggerZone(FrameSize.width, FrameSize.height, DefaultZoneConfig)
  /\ cache = NewCache(PipelineCacheSize)
  /\ temporal_smoother = Some(NewSmoother(TemporalWindowSize))

InitHistory ==
  /\ last_call = NoCall
  /\ invoked = <<>>
  /\ terminal = {}
  /\ recency = NoRecency
  /\ threads = NoThreads(cache)
  /\ refs = NoRefs

Init ==
  /\ InitEngine /\ InitComponents /\ InitHistory
  /\ tracker \in {NewBottleTracker(MaxAge, MaxAttempts, m) : m \in MaxTracks..MaxPipelineTracks}
  /\ pipeline \in {NewPipeline(k) : k \in 0..MaxSkip}

(***************************************************************************)
(* The association engine used on its own: update() and reset().           *)
(***************************************************************************)
restVars == <<tracker, trigger_zone, cache, temporal_smoother, pipeline,
              invoked, terminal, recency, threads, refs>>

TrackerUpdate(t, detections) ==
  \E r \in {BYTETracker_update(byte_tracker[t], STrack_count, detections)} :
    /\ byte_tracker' = [byte_tracker EXCEPT ![t] = r.bt]
    /\ STrack_count' = r.count
    /\ assigned' = [assigned EXCEPT ![t] = @ \o NewIdsOf(r.out, r.bt.frame_id)]
    /\ last_call' = [name |-> "update", tracker |-> t, detections |-> detections]
    /\ UNCHANGED restVars

TrackerReset(t) ==
  /\ byte_tracker' = [byte_tracker EXCEPT ![t] = BYTETracker_reset(@)]
  /\ STrack_count' = reset_id
  /\ assigned' = [assigned EXCEPT ![t] = <<>>]
  /\ last_call' = [name |-> "reset", tracker |-> t]
  /\ UNCHANGED restVars

InitTrackers ==
  /\ InitEngine /\ InitLifecycle /\ InitComponents /\ InitHistory
  /\ pipeline = NewPipeline(0)

\* One tracker in the process.
NextSingle ==
  \/ \E d \in DetectionLists :
       byte_tracker[Self].frame_id < MaxFrames /\ TrackerUpdate(Self, d)
  \/ TrackerReset(Self)

SpecSingle == InitTrackers /\ [][NextSingle]_vars

\* One tracker whose track_buffer is longer than one frame.
InitBuffered ==
  /\ STrack_count = 0
  /\ byte_tracker = [t \in Trackers |->
                       NewBYTETracker(TrackThreshPct, MaxBuffer, MatchThreshPct)]
  /\ assigned = [t \in Trackers |-> <<>>]
  /\ InitLifecycle /\ InitComponents /\ InitHistory
  /\ pipeline = NewPipeline(0)

SpecBuffered == InitBuffered /\ [][NextSingle]_vars

\* Several trackers in the process.
NextMulti ==
  \/ \E t \in Trackers, d \in SingleHighLists :
       byte_tracker[t].frame_id < MaxMultiFrames /\ TrackerUpdate(t, d)
  \/ \E t \in Trackers : TrackerReset(t)

SpecMulti == InitTrackers /\ [][NextMulti]_vars

(***************************************************************************)
(* The lifecycle component used on its own: the public operations of       *)
(* BottleTracker.                                                          *)
(***************************************************************************)
lifecycleRest == <<trigger_zone, cache, temporal_smoother, pipeline, assigned,
                   invoked, terminal, recency, threads, refs>>

\* Identities a caller may pass: those assigned so far and one never assigned.
CallerIds == 1..(STrack_count + 1)

LcUpdate(detections) ==
  /\ tracker.frame_count < MaxFrames
  /\ \E r \in {BYTETracker_update(byte_tracker[Self], STrack_count, detections)} :
       \E u \in {BottleTracker_update(tracker, r.out)} :
         /\ byte_tracker' = [byte_tracker EXCEPT ![Self] = r.bt]
         /\ STrack_count' = r.count
         /\ tracker' = u.tk
         /\ last_call' = [name |-> "update"]
  /\ UNCHANGED lifecycleRest

LcMarkClassified(track_id, results) ==
  /\ tracker' = mark_classified(tracker, track_id, results)
  /\ last_call' = [name |-> "mark_classified"]
  /\ UNCHANGED <<STrack_count, byte_tracker, lifecycleRest>>

LcMarkFailed(track_id) ==
  /\ tracker' = mark_failed(tracker, track_id)
  /\ last_call' = [name |-> "mark_failed"]
  /\ UNCHANGED <<STrack_count, byte_tracker, lifecycleRest>>

\* The counter is capped one above the maximum.
LcIncrement(track_id) ==
  /\ \A k \in DOMAIN tracker.tracks :
       tracker.tracks[k].classification_attempts <= tracker.max_classification_attempts
  /\ tracker' = increment_classification_attempts(tracker, track_id)
  /\ last_call' = [name |-> "increment_classification_attempts"]
  /\ UNCHANGED <<STrack_count, byte_tracker, lifecycleRest>>

\* should_classify(track_id): the value returned is kept in last_call.
LcShouldClassify(track_id) ==
  /\ last_call' = [name |-> "should_classify", track_id |-> track_id,
                   ret |-> should_classify(tracker, track_id)]
  /\ UNCHANGED <<STrack_count, byte_tracker, tracker, lifecycleRest>>

NextLifecycle ==
  \/ \E d \in DetectionLists : LcUpdate(d)
  \/ \E id \in CallerIds, r \in Results : LcMarkClassified(id, r)
  \/ \E id \in CallerIds : LcMarkFailed(id)
  \/ \E id \in CallerIds : LcIncrement(id)
  \/ \E id \in CallerIds : LcShouldClassify(id)

SpecLifecycle == InitTrackers /\ [][NextLifecycle]_vars

(***************************************************************************)
(* The pipeline: process_frame and reset.                                  *)
(***************************************************************************)
\* invoked with the calls of one frame added.
CountCalls(calls, ids) ==
  [id \in DOMAIN calls \cup ids |->
     (IF id \in DOMAIN calls THEN calls[id] ELSE 0) + (IF id \in ids THEN 1 ELSE 0)]

\* The identities whose track is CLASSIFIED or FAILED.
TerminalIds(tk) ==
  {tk.tracks[k].track_id : k \in {j \in DOMAIN tk.tracks :
                                    tk.tracks[j].state \in {"CLASSIFIED", "FAILED"}}}

\* process_frame(frame): raw is what the detector finds in the frame,
\* outcome what _classify_bottle returns for each track it is called for.
FrameLimit ==
  IF tracker.max_tracks = MaxTracks THEN MaxPipelineFrames ELSE MaxWideFrames

ProcessFrame ==
  /\ pipeline.detection_frame_counter < FrameLimit
  /\ LET should_detect ==
           pipeline.detection_frame_counter % (pipeline.skip_frames + 1) = 0
     IN \E raw \in IF should_detect THEN DetectionLists ELSE {<<>>} :
        \E detections \in {IF should_detect
                           THEN detect_bottles(raw, pipeline.confidence_threshold)
                           ELSE pipeline.last_detections} :
        \E r \in {BYTETracker_update(byte_tracker[Self], STrack_count, detections)} :
        \E u \in {BottleTracker_update(tracker, r.out)} :
        \E ids \in {TriggerIds(u.tk, trigger_zone, u.active)} :
        \E outcome \in [ids -> Outcomes] :
        \E st \in {ClassifyLoop([tracker |-> u.tk, cache |-> cache,
                                 smoother |-> temporal_smoother,
                                 classification_count |-> pipeline.classification_count],
                                trigger_zone, u.active, outcome)} :
          /\ byte_tracker' = [byte_tracker EXCEPT ![Self] = r.bt]
          /\ STrack_count' = r.count
          /\ tracker' = st.tracker
          /\ temporal_smoother' = st.smoother
          /\ cache' = RenderLoop(st.cache, st.tracker, u.active)
          /\ pipeline' = [pipeline EXCEPT
                            !.frame_count = @ + 1,
                            !.classification_count = st.classification_count,
                            !.detection_frame_counter = @ + 1,
                            !.last_detections =
                               IF should_detect THEN detections ELSE @]
          /\ invoked' = CountCalls(invoked, ids)
          /\ terminal' = (terminal \cap Range(IdsOf(r.out))) \cup TerminalIds(st.tracker)
          /\ last_call' = [name |-> "process_frame", emitted |-> Range(IdsOf(r.out)),
                           classified |-> ids, terminal_before |-> terminal,
                           errors |-> {id \in ids : outcome[id] = Nil},
                           outcome |-> outcome]
  /\ UNCHANGED <<trigger_zone, assigned, recency, threads, refs>>

\* DetectionTrackingPipeline.reset
PipelineReset ==
  /\ tracker' = BottleTracker_reset(tracker)
  /\ byte_tracker' = [byte_tracker EXCEPT ![Self] = BYTETracker_reset(@)]
  /\ STrack_count' = reset_id
  /\ cache' = cache_clear(cache)
  /\ temporal_smoother' = IF temporal_smoother # Nil
                          THEN Some(clear_all(temporal_smoother[1])) ELSE Nil
  /\ pipeline' = [pipeline EXCEPT !.frame_count = 0, !.classification_count = 0]
  /\ invoked' = <<>>
  /\ terminal' = {}
  /\ last_call' = [name |-> "reset"]
  /\ UNCHANGED <<trigger_zone, assigned, recency, threads, refs>>

Next ==
  \/ ProcessFrame
  \/ PipelineReset

Spec == Init /\ [][Next]_vars

(***************************************************************************)
(* The cache used on its own by one caller.                                *)
(***************************************************************************)
cacheRest_threads == <<STrack_count, byte_tracker, tracker, trigger_zone,
                       temporal_smoother, pipeline, assigned, invoked, terminal, refs>>

cacheRest == <<cacheRest_threads, threads>>

InitCache ==
  /\ InitEngine /\ InitLifecycle
  /\ trigger_zone = NewTriggerZone(FrameSize.width, FrameSize.height, DefaultZoneConfig)
  /\ temporal_smoother = Some(NewSmoother(TemporalWindowSize))
  /\ cache \in {NewCache(n) : n \in 1..MaxCacheSize}
  /\ InitHistory
  /\ pipeline = NewPipeline(0)

\* The clock after a call that accesses key.
Touch(rc, key, present) ==
  [now |-> rc.now + 1,
   last |-> [rc.last EXCEPT ![key] = rc.now + 1],
   inserted |-> IF present THEN rc.inserted
                ELSE [rc.inserted EXCEPT ![key] = rc.now + 1]]

Tick(rc) == [rc EXCEPT !.now = @ + 1]

Called(name, key, ret) ==
  [name |-> name, key |-> key, ret |-> ret, before |-> cache, times |-> recency]

CachePut(key, results) ==
  /\ cache' = cache_put(cache, key, results)
  /\ recency' = Touch(recency, key, key \in Keys(cache.entries))
  /\ last_call' = Called("put", key, <<>>)
  /\ UNCHANGED cacheRest

CacheGet(key) ==
  \E r \in {cache_get(cache, key)} :
    /\ cache' = r.cache
    /\ recency' = IF key \in Keys(cache.entries) THEN Touch(recency, key, TRUE)
                  ELSE Tick(recency)
    /\ last_call' = Called("get", key, <<r.ret>>)
    /\ UNCHANGED cacheRest

CacheRemove(key) ==
  \E r \in {cache_remove(cache, key)} :
    /\ cache' = r.cache
    /\ recency' = Tick(recency)
    /\ last_call' = Called("remove", key, <<r.ret>>)
    /\ UNCHANGED cacheRest

CacheClear ==
  /\ cache' = cache_clear(cache)
  /\ recency' = Tick(recency)
  /\ last_call' = Called("clear", 0, <<>>)
  /\ UNCHANGED cacheRest

CacheContains(key) ==
  /\ recency' = Tick(recency)
  /\ last_call' = Called("contains", key, <<cache_contains(cache, key)>>)
  /\ UNCHANGED <<cache, cacheRest>>

NextCache ==
  /\ recency.now < MaxCacheOps
  /\ \/ \E key \in CacheKeys, results \in Results : CachePut(key, results)
     \/ \E key \in CacheKeys : CacheGet(key)
     \/ \E key \in CacheKeys : CacheRemove(key)
     \/ CacheClear
     \/ \E key \in CacheKeys : CacheContains(key)

SpecCache == InitCache /\ [][NextCache]_vars

(***************************************************************************)
(* The cache called by several threads.  Every method runs its body inside *)
(* "with self._lock"; a body is two steps of the thread, so that another   *)
(* thread could run in between if the lock let it.                         *)
(***************************************************************************)
CacheCalls ==
  {[name |-> "put", key |-> k, value |-> Some(r)] : k \in CacheKeys, r \in Results}
    \cup {[name |-> n, key |-> k, value |-> Nil] :
            n \in {"get", "remove", "contains"}, k \in CacheKeys}
    \cup {[name |-> n, key |-> 0, value |-> Nil] : n \in {"clear", "get_size"}}

\* A call run in one piece: the cache afterwards and the value returned.
Apply(c, op) ==
  CASE op.name = "put" -> [cache |-> cache_put(c, op.key, op.value[1]), ret |-> <<>>]
    [] op.name = "get" ->
         LET r == cache_get(c, op.key) IN [cache |-> r.cache, ret |-> <<r.ret>>]
    [] op.name = "remove" ->
         LET r == cache_remove(c, op.key) IN [cache |-> r.cache, ret |-> <<r.ret>>]
    [] op.name = "clear" -> [cache |-> cache_clear(c), ret |-> <<>>]
    [] op.name = "contains" -> [cache |-> c, ret |-> <<cache_contains(c, op.key)>>]
    [] op.name = "get_size" -> [cache |-> c, ret |-> <<cache_get_size(c)>>]

\* A mutant of lock_free: the lock never makes a thread wait.
lock_free_always(lock) == TRUE

\* Lock.acquire returns when no thread holds the lock.
lock_free(lock) == lock = "free"

\* "with self._lock": the thread enters the body of its call.
Acquire(t, op) ==
  /\ threads.pc[t] = "idle"
  /\ threads.started < MaxThreadCalls
  /\ lock_free(threads.lock)
  /\ \E r \in {Apply(threads.serial, op)} :
       threads' = [threads EXCEPT !.lock = t, !.pc[t] = "first", !.op[t] = op,
                                  !.started = @ + 1, !.last_op = op,
                                  !.serial = r.cache, !.serial_ret[t] = r.ret]
  /\ UNCHANGED <<cache, recency, last_call, cacheRest_threads>>

\* The first half of a body: the membership test and the first change.
first_half(c, op) ==
  LET found == op.key \in Keys(c.entries)
      entries ==
        CASE op.name = "put" ->
               IF found
               THEN [c.entries EXCEPT ![KeyIndex(c.entries, op.key)].value = op.value[1]]
               ELSE Append(c.entries, [key |-> op.key, value |-> op.value[1]])
          [] op.name = "get" ->
               IF found THEN move_to_end(c.entries, op.key) ELSE c.entries
          [] op.name = "remove" ->
               IF found THEN RemoveAt(c.entries, KeyIndex(c.entries, op.key))
               ELSE c.entries
          [] op.name = "clear" -> <<>>
          [] OTHER -> c.entries
  IN [cache |-> [c EXCEPT !.entries = entries,
                          !.misses = IF op.name = "get" /\ ~found THEN @ + 1 ELSE @],
      found |-> found]

\* The second half of a body: what is left, and the value returned.  A key
\* that is gone where the body indexes it raises KeyError.
second_half(c, op, found) ==
  LET here == op.key \in Keys(c.entries)
      entries ==
        IF op.name = "put"
        THEN IF found
             THEN IF here THEN move_to_end(c.entries, op.key) ELSE c.entries
             ELSE IF over_capacity(c.entries, c.max_size)
                  THEN popitem_first(c.entries) ELSE c.entries
        ELSE c.entries
      size == IF op.name = "clear" THEN 0
              ELSE IF op.name = "put" \/ (op.name = "remove" /\ found)
                   THEN Len(entries) ELSE c.size
  IN [cache |-> [c EXCEPT !.entries = entries, !.size = size,
                          !.hits = IF op.name = "get" /\ found THEN @ + 1 ELSE @],
      raised |-> op.name \in {"put", "get"} /\ found /\ ~here,
      ret |-> CASE op.name = "get" ->
                     IF found /\ here
                     THEN <<Some(c.entries[KeyIndex(c.entries, op.key)].value)>>
                     ELSE <<Nil>>
                [] op.name = "remove" -> <<found>>
                [] OTHER -> <<>>]

First(t) ==
  /\ threads.pc[t] = "first"
  /\ IF threads.op[t].name \in {"contains", "get_size"}
     THEN /\ threads' = [threads EXCEPT
                           !.lock = "free", !.pc[t] = "idle",
                           !.ret[t] = Apply(cache, threads.op[t]).ret]
          /\ UNCHANGED cache
     ELSE \E r \in {first_half(cache, threads.op[t])} :
            /\ cache' = r.cache
            /\ threads' = [threads EXCEPT !.pc[t] = "second", !.found[t] = r.found]
  /\ UNCHANGED <<recency, last_call, cacheRest_threads>>

\* The end of the body releases the lock.
Second(t) ==
  /\ threads.pc[t] = "second"
  /\ \E r \in {second_half(cache, threads.op[t], threads.found[t])} :
       /\ cache' = r.cache
       /\ threads' = [threads EXCEPT !.lock = "free", !.pc[t] = "idle",
                                     !.ret[t] = r.ret,
                                     !.raised = @ \/ r.raised]
  /\ UNCHANGED <<recency, last_call, cacheRest_threads>>

NextThreads ==
  \/ \E t \in CacheThreads, op \in CacheCalls : Acquire(t, op)
  \/ \E t \in CacheThreads : First(t)
  \/ \E t \in CacheThreads : Second(t)

SpecThreads == InitCache /\ [][NextThreads]_vars

(***************************************************************************)
(* The cache and the dicts of its caller, by reference.  The heap is the    *)
(* list of dicts, a reference is an index into it; the values of the cache  *)
(* entries are references.                                                  *)
(***************************************************************************)
\* A mutant of dict.copy(): the same dict is handed on.
dict_alias(heap, ref) == [heap |-> heap, ref |-> ref]

\* dict.copy(): a new dict with the same items.
dict_copy(heap, ref) == [heap |-> Append(heap, heap[ref]), ref |-> Len(heap) + 1]

aliasRest == <<STrack_count, byte_tracker, tracker, trigger_zone, temporal_smoother,
               pipeline, assigned, invoked, terminal, recency, threads>>

\* The caller builds a dict.
RefMake(value) ==
  /\ Len(refs.heap) < MaxHeap
  /\ refs' = [refs EXCEPT !.heap = Append(@, value),
                          !.held = @ \cup {Len(refs.heap) + 1}]
  /\ last_call' = [name |-> "dict"]
  /\ UNCHANGED <<cache, aliasRest>>

\* The caller changes an item of a dict it holds.
RefMutate(ref, value) ==
  /\ refs.heap[ref] # value
  /\ refs' = [refs EXCEPT !.heap[ref] = value]
  /\ last_call' = [name |-> "mutate"]
  /\ UNCHANGED <<cache, aliasRest>>

\* put(key, results): "self._cache[track_id] = results.copy()"
RefPut(key, ref) ==
  /\ Len(refs.heap) < MaxHeap
  /\ \E c \in {dict_copy(refs.heap, ref)} :
       /\ cache' = cache_put(cache, key, c.ref)
       /\ refs' = [refs EXCEPT
                     !.heap = c.heap,
                     !.put_value = [k \in DOMAIN @ \cup {key} |->
                                      IF k = key THEN refs.heap[ref] ELSE @[k]],
                     !.put_arg = [k \in DOMAIN @ \cup {key} |->
                                    IF k = key THEN ref ELSE @[k]],
                     !.got[key] = {}]
  /\ last_call' = [name |-> "put", key |-> key]
  /\ UNCHANGED aliasRest

\* get(key): "return self._cache[track_id].copy()", or None (0).
RefGet(key) ==
  /\ Len(refs.heap) < MaxHeap
  /\ cache.hits + cache.misses < MaxRefGets
  /\ \E r \in {cache_get(cache, key)} :
       /\ cache' = r.cache
       /\ IF r.ret = Nil
          THEN /\ refs' = refs
               /\ last_call' = [name |-> "get", key |-> key, ret |-> 0]
          ELSE \E c \in {dict_copy(refs.heap, r.ret[1])} :
                 /\ refs' = [refs EXCEPT !.heap = c.heap, !.held = @ \cup {c.ref},
                                         !.got[key] = @ \cup {c.ref}]
                 /\ last_call' = [name |-> "get", key |-> key, ret |-> c.ref]
  /\ UNCHANGED aliasRest

NextRefs ==
  \/ \E value \in Results : RefMake(value)
  \/ \E ref \in refs.held, value \in Results : RefMutate(ref, value)
  \/ \E key \in CacheKeys, ref \in refs.held : RefPut(key, ref)
  \/ \E key \in CacheKeys : RefGet(key)

SpecRefs == InitCache /\ [][NextRefs]_vars

(***************************************************************************)
(* linear_assignment applied to cost matrices of every shape.              *)
(***************************************************************************)
\* Costs 0, 1/2 and 1, thresholds 0 and 1/2.
AssignCosts == {<<0, 1>>, <<1, 2>>, <<1, 1>>}
AssignThresholds == {<<0, 1>>, <<1, 2>>}

CostMatrices(n, m) == [1..n -> [1..m -> AssignCosts]]

InitAssign ==
  /\ InitEngine /\ InitLifecycle /\ InitComponents
  /\ invoked = <<>> /\ terminal = {} /\ recency = NoRecency
  /\ threads = NoThreads(cache) /\ refs = NoRefs
  /\ pipeline = NewPipeline(0)
  /\ \E n \in 0..MaxRows, m \in 0..MaxCols :
       last_call \in [name : {"cost_matrix"}, rows : {n}, cols : {m},
                      cost_matrix : CostMatrices(n, m), thresh : AssignThresholds]

Assign ==
  /\ last_call.name = "cost_matrix"
  /\ last_call' =
       [name |-> "linear_assignment", rows |-> last_call.rows, cols |-> last_call.cols,
        cost_matrix |-> last_call.cost_matrix, thresh |-> last_call.thresh,
        ret |-> linear_assignment(last_call.cost_matrix, last_call.rows,
                                  last_call.cols, last_call.thresh)]
  /\ UNCHANGED <<STrack_count, byte_tracker, tracker, trigger_zone, cache,
                 temporal_smoother, pipeline, assigned, invoked, terminal,
                 recency, threads, refs>>

NextAssign == Assign

SpecAssign == InitAssign /\ [][NextAssign]_vars

(***************************************************************************)
(* The trigger zone built and reconfigured with any configuration.         *)
(***************************************************************************)
ZoneOffsets == {Num(-10), Num(0), Num(30), Num(70)}
ZoneExtents == {Num(-20), Num(0), Num(40), Num(120)}
ZoneConfigs == [x_offset_pct : ZoneOffsets, y_offset_pct : ZoneOffsets,
                width_pct : ZoneExtents, height_pct : ZoneExtents]
FrameLengths == {0, 7, 100}

InitZone ==
  /\ InitEngine /\ InitLifecycle
  /\ cache = NewCache(PipelineCacheSize)
  /\ temporal_smoother = Some(NewSmoother(TemporalWindowSize))
  /\ pipeline = NewPipeline(0)
  /\ InitHistory
  /\ trigger_zone \in {NewTriggerZone(w, h, DefaultZoneConfig) :
                         w \in FrameLengths, h \in FrameLengths}

zoneRest ==
  <<STrack_count, byte_tracker, tracker, cache, temporal_smoother,
    pipeline, assigned, invoked, terminal, recency, threads, refs>>

UpdateConfig(config) ==
  /\ \E call \in {update_config_call(trigger_zone, config)} :
       /\ trigger_zone' = call.zone
       /\ last_call' = [name |-> "update_config", config |-> config,
                        raised |-> call.raised]
  /\ UNCHANGED zoneRest

\* zone = TriggerZone(frame_width, frame_height, config): the name is bound to
\* the new object unless the constructor raises.
Construct(frame_width, frame_height, config) ==
  /\ \E call \in {init_call(frame_width, frame_height, config)} :
       /\ trigger_zone' = IF call.raised THEN trigger_zone ELSE call.zone
       /\ last_call' = [name |-> "__init__", config |-> config,
                        raised |-> call.raised]
  /\ UNCHANGED zoneRest

SpecZone == InitZone /\ [][\E config \in ZoneConfigs : UpdateConfig(config)]_vars

\* The same calls with float('nan') among the percentages.
AnyOffsets == {NaN, Num(-10), Num(30)}
AnyExtents == {NaN, Num(40), Num(120)}
AnyConfigs == [x_offset_pct : AnyOffsets, y_offset_pct : {NaN, Num(20)},
               width_pct : AnyExtents, height_pct : {Num(60)}]

NextZoneAny ==
  \/ \E config \in AnyConfigs : UpdateConfig(config)
  \/ \E config \in AnyConfigs, w \in FrameLengths, h \in FrameLengths :
       Construct(w, h, config)

SpecZoneAny == InitZone /\ [][NextZoneAny]_vars

(***************************************************************************)
(* The web-dashboard deployment: camera_loop runs process_frame on the      *)
(* camera thread while the Flask server (threaded=True) handles requests    *)
(* on other threads.  No lock is taken around process_frame, reset or the   *)
(* track listing, so a request runs between any two steps of a frame.       *)
(***************************************************************************)
MaxDashboardFrames == 2

IdleCamera == [pc |-> "idle", tracks |-> <<>>, todo |-> <<>>]

InitDashboard ==
  /\ InitEngine /\ InitLifecycle /\ InitComponents
  /\ pipeline = NewPipeline(0)
  /\ last_call = NoCall /\ invoked = <<>> /\ terminal = {}
  /\ recency = NoRecency /\ refs = NoRefs
  /\ threads = IdleCamera

\* Camera thread, process_frame steps 1 and 2: detection and tracker.update.
CameraTrack ==
  /\ threads.pc = "idle"
  /\ pipeline.detection_frame_counter < MaxDashboardFrames
  /\ \E raw \in DetectionLists :
     \E detections \in {detect_bottles(raw, pipeline.confidence_threshold)} :
     \E r \in {BYTETracker_update(byte_tracker[Self], STrack_count, detections)} :
     \E u \in {BottleTracker_update(tracker, r.out)} :
       /\ byte_tracker' = [byte_tracker EXCEPT ![Self] = r.bt]
       /\ STrack_count' = r.count
       /\ tracker' = u.tk
       /\ pipeline' = [pipeline EXCEPT !.frame_count = @ + 1,
                                       !.detection_frame_counter = @ + 1,
                                       !.last_detections = detections]
       /\ threads' = [pc |-> "classify", tracks |-> u.active, todo |-> u.active]
  /\ last_call' = [name |-> "process_frame", step |-> "track"]
  /\ UNCHANGED <<trigger_zone, cache, temporal_smoother, assigned, invoked,
                 terminal, recency, refs>>

\* Camera thread, step 3: one iteration of the loop over the frame's tracks.
CameraClassify ==
  /\ threads.pc = "classify" /\ Len(threads.todo) > 0
  /\ \E outcome \in [{Head(threads.todo).track_id} -> Outcomes] :
     \E st \in {ClassifyLoop([tracker |-> tracker, cache |-> cache,
                              smoother |-> temporal_smoother,
                              classification_count |-> pipeline.classification_count],
                             trigger_zone, <<Head(threads.todo)>>, outcome)} :
       /\ tracker' = st.tracker
       /\ cache' = st.cache
       /\ temporal_smoother' = st.smoother
       /\ pipeline' = [pipeline EXCEPT !.classification_count = st.classification_count]
  /\ threads' = [threads EXCEPT !.todo = Tail(@)]
  /\ last_call' = [name |-> "process_frame", step |-> "classify"]
  /\ UNCHANGED <<STrack_count, byte_tracker, trigger_zone, assigned, invoked,
                 terminal, recency, refs>>

\* Camera thread, steps 4 and 5: rendering and statistics; the frame is done.
CameraRender ==
  /\ threads.pc = "classify" /\ Len(threads.todo) = 0
  /\ cache' = RenderLoop(cache, tracker, threads.tracks)
  /\ threads' = IdleCamera
  /\ last_call' = [name |-> "process_frame", step |-> "render"]
  /\ UNCHANGED <<STrack_count, byte_tracker, tracker, trigger_zone, temporal_smoother,
                 pipeline, assigned, invoked, terminal, recency, refs>>

\* Request thread, POST /api/control/reset: self.pipeline.reset().
RequestReset ==
  /\ tracker' = BottleTracker_reset(tracker)
  /\ byte_tracker' = [byte_tracker EXCEPT ![Self] = BYTETracker_reset(@)]
  /\ STrack_count' = reset_id
  /\ cache' = cache_clear(cache)
  /\ temporal_smoother' = IF temporal_smoother # Nil
                          THEN Some(clear_all(temporal_smoother[1])) ELSE Nil
  /\ pipeline' = [pipeline EXCEPT !.frame_count = 0, !.classification_count = 0]
  /\ last_call' = [name |-> "request_reset", in_frame |-> threads.pc # "idle"]
  /\ UNCHANGED <<trigger_zone, assigned, invoked, terminal, recency, threads, refs>>

\* Request thread, GET /api/tracks: self.pipeline.tracker.get_active_tracks().
RequestTracks ==
  /\ last_call' = [name |-> "request_tracks", in_frame |-> threads.pc # "idle",
                   ret |-> ActiveTracks(tracker.tracks)]
  /\ UNCHANGED <<STrack_count, byte_tracker, tracker, trigger_zone, cache,
                 temporal_smoother, pipeline, assigned, invoked, terminal,
                 recency, threads, refs>>

NextDashboard ==
  \/ CameraTrack
  \/ CameraClassify
  \/ CameraRender
  \/ RequestReset
  \/ RequestTracks

SpecDashboard == InitDashboard /\ [][NextDashboard]_vars

(***************************************************************************)
(* The temporal smoother called directly.                                  *)
(***************************************************************************)
MaxSmootherCalls == 6
SmootherWindows == {1, 3, 5}
SmootherIds == {1, 2}
Predictions ==
  {[brand |-> "Aqua", color |-> "Clear"], [brand |-> "Cleo", color |-> "Clear"],
   [brand |-> "Aqua", color |-> "Blue"]}

smootherRest ==
  <<STrack_count, byte_tracker, tracker, trigger_zone, cache, pipeline,
    assigned, invoked, terminal, recency, threads, refs>>

InitSmoother ==
  /\ InitEngine /\ InitLifecycle
  /\ trigger_zone = NewTriggerZone(FrameSize.width, FrameSize.height, DefaultZoneConfig)
  /\ cache = NewCache(PipelineCacheSize)
  /\ temporal_smoother \in {Some(NewSmoother(n)) : n \in SmootherWindows}
  /\ pipeline = NewPipeline(0)
  /\ invoked = <<>> /\ terminal = {}
  /\ recency = NoRecency /\ threads = NoThreads(cache) /\ refs = NoRefs
  /\ last_call = [name |-> "none", calls |-> 0]

Smooth(track_id, current_pred) ==
  /\ last_call.calls < MaxSmootherCalls
  /\ \E call \in {smooth(temporal_smoother[1], track_id, current_pred)} :
       /\ temporal_smoother' = Some(call.smoother)
       /\ last_call' = [name |-> "smooth", track_id |-> track_id,
                        current_pred |-> current_pred, ret |-> call.ret,
                        calls |-> last_call.calls + 1]
  /\ UNCHANGED smootherRest

ClearTrack(track_id) ==
  /\ last_call.calls < MaxSmootherCalls
  /\ temporal_smoother' = Some(clear_track(temporal_smoother[1], track_id))
  /\ last_call' = [name |-> "clear_track", track_id |-> track_id,
                   calls |-> last_call.calls + 1]
  /\ UNCHANGED smootherRest

ClearAll ==
  /\ last_call.calls < MaxSmootherCalls
  /\ temporal_smoother' = Some(clear_all(temporal_smoother[1]))
  /\ last_call' = [name |-> "clear_all", calls |-> last_call.calls + 1]
  /\ UNCHANGED smootherRest

NextSmoother ==
  \/ \E track_id \in SmootherIds, current_pred \in Predictions :
       Smooth(track_id, current_pred)
  \/ \E track_id \in SmootherIds : ClearTrack(track_id)
  \/ ClearAll

SpecSmoother == InitSmoother /\ [][NextSmoother]_vars

(***************************************************************************)
(* Label resolution applied to the classifier heads' probabilities.        *)
(***************************************************************************)
MlbClasses == <<"Aqua", "Blue", "Clear", "Cleo">>
LabelColumns == <<"brand", "color", "shape">>
MappingDicts ==
  {[brand |-> <<"Aqua", "Cleo">>, color |-> <<"Blue", "Clear", "Green">>,
    shape |-> <<>>],
   [brand |-> <<"Cleo", "Aqua">>, color |-> <<"Green", "Clear", "Blue">>,
    shape |-> <<>>]}
Probabilities == {0, 300, 500, 501, 550, 925}
ConfidenceThresholds == {300, 500, 600}

InitLabels ==
  /\ InitEngine /\ InitLifecycle /\ InitComponents
  /\ pipeline = NewPipeline(0)
  /\ invoked = <<>> /\ terminal = {}
  /\ recency = NoRecency /\ threads = NoThreads(cache) /\ refs = NoRefs
  /\ last_call \in [name : {"predict_proba"},
                    Y_proba : [DOMAIN MlbClasses -> Probabilities],
                    mapping_dict : MappingDicts,
                    confidence_threshold : ConfidenceThresholds]

ResolveLabels ==
  /\ last_call.name = "predict_proba"
  /\ last_call' = [last_call EXCEPT !.name = "final_output"] @@
                  [final_output |->
                     final_output(MlbClasses, last_call.Y_proba, last_call.mapping_dict,
                                  LabelColumns, last_call.confidence_threshold)]
  /\ UNCHANGED <<trigger_zone, zoneRest>>

SpecLabels == InitLabels /\ [][ResolveLabels]_vars

(***************************************************************************)
(* contains_point asked of zones built and reconfigured.                   *)
(***************************************************************************)
ExampleConfig ==
  [x_offset_pct |-> Num(25), y_offset_pct |-> Num(20),
   width_pct |-> Num(50), height_pct |-> Num(60)]
ContainsConfigs ==
  {ExampleConfig, DefaultZoneConfig,
   [x_offset_pct |-> Num(70), y_offset_pct |-> Num(-10),
    width_pct |-> Num(120), height_pct |-> Num(40)]}
ContainsFrames == {<<640, 480>>, <<7, 100>>}
PointXs == {0, 2, 4, 5, 160, 320, 480, 481}
PointYs == {0, 20, 80, 81, 96, 240, 384, 385}

InitContains ==
  /\ InitEngine /\ InitLifecycle
  /\ cache = NewCache(PipelineCacheSize)
  /\ temporal_smoother = Some(NewSmoother(TemporalWindowSize))
  /\ pipeline = NewPipeline(0)
  /\ InitHistory
  /\ trigger_zone \in {NewTriggerZone(f[1], f[2], config) :
                         f \in ContainsFrames, config \in ContainsConfigs}

ContainsPoint(x, y) ==
  /\ last_call' = [name |-> "contains_point", x |-> x, y |-> y,
                   ret |-> contains_point2(trigger_zone, <<2 * x, 2 * y>>)]
  /\ UNCHANGED <<trigger_zone, zoneRest>>

NextContains ==
  \/ \E x \in PointXs, y \in PointYs : ContainsPoint(x, y)
  \/ \E config \in ContainsConfigs : UpdateConfig(config)

SpecContains == InitContains /\ [][NextContains]_vars

(***************************************************************************)
(* Properties of the lifecycle, of identities and of the pipeline.         *)
(***************************************************************************)
StrictlyIncreasing(s) == \A i, j \in DOMAIN s : i < j => s[i] < s[j]

LiveTracks == {tracker.tracks[k] : k \in DOMAIN tracker.tracks}

\* C1: between two resets, over any sequence of process_frame calls, the
\* classification path is invoked at most max_classification_attempts times
\* in total for any single track identity.
C1_InvocationsPerIdentity ==
  \A id \in DOMAIN invoked : invoked[id] <= tracker.max_classification_attempts

\* C2: after any sequence of update, mark_classified, mark_failed and
\* increment_classification_attempts, every live track whose attempt counter
\* has reached max_classification_attempts is FAILED.
C2_AtMaxIsFailed ==
  \A t \in LiveTracks :
    t.classification_attempts >= tracker.max_classification_attempts
      => t.state = "FAILED"

\* C3: after any sequence of the lifecycle operations, no live track has an
\* attempt counter above max_classification_attempts.
C3_AttemptsBounded ==
  \A t \in LiveTracks :
    t.classification_attempts <= tracker.max_classification_attempts

\* C4: an identity that was CLASSIFIED or FAILED at the end of a frame, and
\* that the association engine has emitted in every frame since, is not
\* classified by a later process_frame and is not NEW or TRACKED after it.
C4_TerminalStaysTerminal ==
  last_call.name = "process_frame" =>
    \A id \in last_call.terminal_before \cap last_call.emitted :
      /\ id \notin last_call.classified
      /\ \A t \in LiveTracks : t.track_id = id => t.state \notin {"NEW", "TRACKED"}

\* C8: for one tracker, between two resets, the identities given to new
\* tracks are strictly increasing: each is greater than all given before.
C8_IdsIncrease == StrictlyIncreasing(assigned[Self])

\* A second new track gets its identity after the first one was removed.
C8_Witness ==
  /\ Len(assigned[Self]) >= 2
  /\ assigned[Self][1] \in Range(IdsOf(byte_tracker[Self].removed_stracks))
  /\ assigned[Self][Len(assigned[Self])] \in Range(IdsOf(byte_tracker[Self].tracked_stracks))

\* C9: for every tracker of the process, the identities it gives to new
\* tracks are strictly increasing, whatever the other trackers do
\* (update or reset) in between.
C9_IdsIncreasePerTracker == \A t \in Trackers : StrictlyIncreasing(assigned[t])

\* C10: after every BottleTracker.update, the number of live tracks is at
\* most max_tracks.
C10_TrackLimit ==
  last_call.name = "update" => Len(tracker.tracks) <= tracker.max_tracks

\* update() returned with the engine tracking more than max_tracks objects.
C10_Witness ==
  /\ last_call.name = "update"
  /\ Len(byte_tracker[Self].tracked_stracks) > tracker.max_tracks
  /\ Len(tracker.tracks) = tracker.max_tracks

\* C5: after any sequence of put, get, remove, clear and contains on a cache
\* with max_size >= 1, the cache holds at most max_size entries.
C5_SizeBounded == Len(cache.entries) <= cache.max_size

\* A put of a key that is not cached has found the cache full.
PutIntoFull ==
  /\ last_call.name = "put"
  /\ last_call.key \notin Keys(last_call.before.entries)
  /\ Len(last_call.before.entries) = last_call.before.max_size

C5_Witness == PutIntoFull /\ Len(cache.entries) = cache.max_size

\* The cached keys whose last put or get hit is the oldest.
Oldest(c, rc) ==
  {k \in Keys(c.entries) : \A o \in Keys(c.entries) : rc.last[k] <= rc.last[o]}

\* C6: a put of a new key into a full cache evicts exactly one entry, the one
\* whose most recent put or get hit is the oldest; a put or a get of a cached
\* key evicts nothing and leaves that key the last one to be evicted.
C6_LruEviction ==
  /\ PutIntoFull =>
       \E victim \in Oldest(last_call.before, last_call.times) :
         Keys(cache.entries) =
           (Keys(last_call.before.entries) \ {victim}) \cup {last_call.key}
  /\ (/\ last_call.name \in {"put", "get"}
      /\ last_call.key \in Keys(last_call.before.entries)) =>
       /\ Keys(cache.entries) = Keys(last_call.before.entries)
       /\ cache.entries[Len(cache.entries)].key = last_call.key

\* A put into a full cache has evicted a key that was inserted after a key
\* that stays: the order of accesses decided, not the order of insertion.
C6_Witness ==
  /\ PutIntoFull
  /\ \E victim \in Keys(last_call.before.entries) \ Keys(cache.entries) :
       \E kept \in Keys(cache.entries) \ {last_call.key} :
         last_call.times.inserted[kept] < last_call.times.inserted[victim]

\* C7: under any interleaving of get, put, remove, clear and contains by
\* several threads, the calls take effect one at a time: no call fails, the
\* cache between calls and every value returned are those of the same calls
\* run one after the other, the value of the last put is cached, and no
\* thread is told of more than max_size entries.
C7_CallsAreAtomic ==
  /\ ~threads.raised
  /\ threads.lock = "free" =>
       /\ cache = threads.serial
       /\ Len(cache.entries) <= cache.max_size
       /\ threads.last_op.name = "put" =>
            cache_get(cache, threads.last_op.key).ret = threads.last_op.value
  /\ \A t \in CacheThreads :
       threads.pc[t] = "idle" =>
         /\ threads.ret[t] = threads.serial_ret[t]
         /\ threads.op[t].name = "get_size" => threads.ret[t][1] <= cache.max_size

\* A thread is half way through a put that will evict, the cache holding one
\* entry too many, after the other thread has made a call.
C7_Witness ==
  \E t, u \in CacheThreads :
    /\ t # u
    /\ threads.pc[t] = "second"
    /\ Len(cache.entries) > cache.max_size
    /\ threads.op[u].name # "none"

\* A step of BottleTracker.update on the lifecycle tracker.
UpdateStep ==
  /\ last_call'.name = "update"
  /\ tracker'.frame_count = tracker.frame_count + 1

\* The tracks update() holds when it tests the capacity: those of before,
\* refreshed, created or aged by the engine's output of this step.
FoundByUpdate == before_limit(tracker, byte_tracker'[Self].tracked_stracks)

C11_Step ==
  UpdateStep =>
    \A found \in {FoundByUpdate} :
      Len(found) > tracker.max_tracks =>
        /\ Len(tracker'.tracks) = tracker.max_tracks
        /\ \A kept \in Range(tracker'.tracks) :
             /\ kept \in Range(found)
             /\ \A dropped \in Range(found) \ Range(tracker'.tracks) :
                  kept.confidence >= dropped.confidence

\* C11: an update() that finds more than max_tracks tracked objects retains
\* exactly max_tracks of them, each with a confidence at least that of every
\* dropped one, and with state, attempts and results as they were found.
C11_KeepsMostConfident == [][C11_Step]_vars

\* update() has dropped an object the engine tracks, less confident than the
\* one it kept, and the kept one is no longer NEW.
C11_Witness ==
  /\ last_call.name = "update"
  /\ Len(tracker.tracks) = tracker.max_tracks
  /\ \E s \in Range(byte_tracker[Self].tracked_stracks) :
       /\ IndexOf(tracker.tracks, s.track_id) = 0
       /\ \A kept \in Range(tracker.tracks) :
            kept.confidence > s.score /\ kept.state # "NEW"

C12_Step ==
  UpdateStep =>
    \A found \in {FoundByUpdate} :
      \A s \in Range(byte_tracker'[Self].tracked_stracks) :
        LET before == IndexOf(tracker.tracks, s.track_id)
            at == IndexOf(found, s.track_id)
            after == IndexOf(tracker'.tracks, s.track_id)
        IN /\ at # 0
           /\ before = 0 =>
                /\ found[at].state = "NEW"
                /\ found[at].classification_attempts = 0
           /\ (before # 0 /\ tracker.tracks[before].state = "NEW") =>
                found[at].state = "TRACKED"
           /\ after # 0 => tracker'.tracks[after] = found[at]

C13_Step ==
  last_call'.name = "should_classify" =>
    /\ UNCHANGED <<tracker, byte_tracker, STrack_count, cache, temporal_smoother>>
    /\ last_call'.ret <=>
         \E t \in LiveTracks :
           /\ t.track_id = last_call'.track_id
           /\ t.state \in {"NEW", "TRACKED"}
           /\ t.classification_attempts < tracker.max_classification_attempts

\* C13: should_classify(id) is true exactly when a live tracked object has
\* that identity, is NEW or TRACKED and has fewer than
\* max_classification_attempts attempts; the call leaves the tracker, the
\* engine, the identity counter, the cache and the smoother as they were.
C13_ShouldClassify == [][C13_Step]_vars

\* should_classify was true for an object that has failed once.
C13_Witness ==
  /\ last_call.name = "should_classify"
  /\ last_call.ret
  /\ \E t \in LiveTracks :
       t.track_id = last_call.track_id /\ t.classification_attempts = 1

\* The tracks of before an update step whose identity the engine does not
\* return in it.
AbsentTracks ==
  {t \in LiveTracks : t.track_id \notin Range(IdsOf(byte_tracker'[Self].tracked_stracks))}

\* The track is live after the step, one frame older and otherwise as it was.
KeptOlder(t) ==
  \E k \in DOMAIN tracker'.tracks :
    tracker'.tracks[k] = [t EXCEPT !.frames_since_update = @ + 1]

Deleted(t) == IndexOf(tracker'.tracks, t.track_id) = 0

\* C14 as it is stated: an absent object is kept while its absence count is at
\* most max_age and deleted by the update() in which the count exceeds max_age.
C14_Step ==
  UpdateStep =>
    \A t \in AbsentTracks :
      IF t.frames_since_update + 1 <= tracker.max_age THEN KeptOlder(t)
      ELSE Deleted(t)

C14_KeptUntilMaxAge == [][C14_Step]_vars

C14_AmendedStep ==
  UpdateStep =>
    \A found \in {FoundByUpdate} :
      \A t \in AbsentTracks :
        IF t.frames_since_update + 1 <= tracker.max_age
        THEN IF Len(found) <= tracker.max_tracks THEN KeptOlder(t)
             ELSE KeptOlder(t) \/ Deleted(t)
        ELSE Deleted(t)

\* C14, amended: an absent object is deleted by the update() in which its
\* absence count exceeds max_age; before that it is kept, one frame older and
\* otherwise unchanged, by every update() that finds at most max_tracks
\* objects, and kept or evicted by one that finds more.
C14_KeptUntilMaxAgeOrEvicted == [][C14_AmendedStep]_vars

\* An update() without detections has deleted the only object: the engine
\* holds its track as lost or removed and no object is left.
C14_Witness ==
  /\ last_call.name = "update"
  /\ tracker.tracks = <<>>
  /\ byte_tracker[Self].tracked_stracks = <<>>
  /\ STrack_count = 1
  /\ tracker.frame_count = MaxAge + 2

\* A step of process_frame.
FrameStep ==
  /\ last_call'.name = "process_frame"
  /\ pipeline'.detection_frame_counter = pipeline.detection_frame_counter + 1

\* The center (x1 + x2) / 2, (y1 + y2) / 2 of the rectangle lies in the zone.
CenterInZone(bbox) ==
  /\ 2 * trigger_zone.bounds.x1 <= bbox[1] + bbox[3]
  /\ bbox[1] + bbox[3] <= 2 * trigger_zone.bounds.x2
  /\ 2 * trigger_zone.bounds.y1 <= bbox[2] + bbox[4]
  /\ bbox[2] + bbox[4] <= 2 * trigger_zone.bounds.y2

\* What tracker.update returns in this step of process_frame.
TrackerOutput == BottleTracker_update(tracker, byte_tracker'[Self].tracked_stracks)

C15_Step ==
  FrameStep =>
    \A u \in {TrackerOutput} :
      LET due == {t \in Range(u.active) :
                    should_classify(u.tk, t.track_id) /\ CenterInZone(t.bbox)}
      IN /\ last_call'.classified = {t.track_id : t \in due}
         /\ \A t \in Range(u.tk.tracks) :
              \E k \in DOMAIN tracker'.tracks :
                /\ tracker'.tracks[k].track_id = t.track_id
                /\ IF t \in due
                   THEN \/ tracker'.tracks[k].state = "CLASSIFIED"
                        \/ tracker'.tracks[k].classification_attempts =
                             t.classification_attempts + 1
                   ELSE tracker'.tracks[k] = t

\* C15: process_frame invokes the classification path for exactly the objects
\* of the frame's active tracker output for which should_classify is true
\* and whose center lies in the trigger zone, bounds included; every other
\* object is left as tracker.update returned it.
C15_TriggerIff == [][C15_Step]_vars

\* A frame has classified an object whose center is on the zone's upper bound.
C15_Witness ==
  /\ last_call.name = "process_frame"
  /\ \E t \in LiveTracks :
       /\ t.track_id \in last_call.classified
       /\ t.bbox[2] + t.bbox[4] = 2 * trigger_zone.bounds.y1

\* The cache entries and the smoother history of an identity.
EntriesOf(c, id) == {e \in Range(c.entries) : e.key = id}

HistoryIn(sm, id) == IF sm = Nil THEN <<>> ELSE HistoryOf(sm[1], id)

C16_Step ==
  FrameStep =>
    \A u \in {TrackerOutput} :
      LET errors == last_call'.errors
          done == last_call'.classified \ errors
      IN /\ \A id \in errors :
              LET b == u.tk.tracks[IndexOf(u.tk.tracks, id)]
                  attempts == b.classification_attempts + 1
              IN /\ \E k \in DOMAIN tracker'.tracks :
                      tracker'.tracks[k] =
                        [b EXCEPT !.classification_attempts = attempts,
                                  !.state = IF attempts >= tracker.max_classification_attempts
                                            THEN "FAILED" ELSE @]
                 /\ EntriesOf(cache', id) = EntriesOf(cache, id)
                 /\ HistoryIn(temporal_smoother', id) = HistoryIn(temporal_smoother, id)
         /\ pipeline'.classification_count =
              pipeline.classification_count + Cardinality(done)
         /\ done = {} =>
              /\ Range(cache'.entries) = Range(cache.entries)
              /\ temporal_smoother' = temporal_smoother
         /\ \A id \in done :
              /\ id \in Keys(cache'.entries)
              /\ \E k \in DOMAIN tracker'.tracks :
                   /\ tracker'.tracks[k].track_id = id
                   /\ tracker'.tracks[k].state = "CLASSIFIED"

\* C16: when _classify_bottle fails for an object, process_frame goes on: the
\* object's attempts grow by one and it is FAILED once they reach the
\* maximum, its cache entry and smoother history are as before, the
\* classification count grows only by the frame's successes, and the other
\* objects of the frame are classified and cached.
C16_ErrorIsOneAttempt == [][C16_Step]_vars

\* In one frame the classification of one object failed for the last allowed
\* time and that of another object succeeded.
C16_Witness ==
  /\ last_call.name = "process_frame"
  /\ last_call.classified \ last_call.errors # {}
  /\ \E t \in LiveTracks :
       t.track_id \in last_call.errors /\ t.state = "FAILED"

\* C17: after DetectionTrackingPipeline.reset() the tracker holds no tracked
\* object and the engine no track, STrack._count is 0 as at the start, the
\* cache and the smoother histories are empty, and frame_count and
\* classification_count are 0.
C17_ResetClears ==
  last_call.name = "reset" =>
    /\ tracker.tracks = <<>>
    /\ tracker.frame_count = 0
    /\ byte_tracker[Self].tracked_stracks = <<>>
    /\ byte_tracker[Self].lost_stracks = <<>>
    /\ byte_tracker[Self].removed_stracks = <<>>
    /\ STrack_count = 0
    /\ cache.entries = <<>>
    /\ temporal_smoother # Nil => DOMAIN temporal_smoother[1].history = {}
    /\ pipeline.frame_count = 0
    /\ pipeline.classification_count = 0

\* reset() has been called on a pipeline that had processed two frames and
\* drawn a cached result.
C17_Witness ==
  /\ last_call.name = "reset"
  /\ pipeline.detection_frame_counter >= 2
  /\ cache.hits >= 1

\* C18: a get(k) after a put(k, v) returns a dict equal to v as it was put,
\* whatever the caller has since done to v and to the dicts earlier gets
\* returned; it is a new dict, none the caller held and not the stored one.
C18_CopiesIsolate ==
  /\ \A e \in Range(cache.entries) : refs.heap[e.value] = refs.put_value[e.key]
  /\ \A e \in Range(cache.entries) : e.value \notin refs.held
  /\ (last_call.name = "get" /\ last_call.ret # 0) =>
       refs.heap[last_call.ret] = refs.put_value[last_call.key]

\* get(k) has returned a dict after the caller changed both the dict it had
\* put and a dict an earlier get(k) had returned.
C18_Witness ==
  /\ last_call.name = "get"
  /\ last_call.ret # 0
  /\ refs.heap[refs.put_arg[last_call.key]] # refs.put_value[last_call.key]
  /\ \E r \in refs.got[last_call.key] \ {last_call.ret} :
       refs.heap[r] # refs.put_value[last_call.key]

NoRepeats(s) == \A i, j \in DOMAIN s : i # j => s[i] # s[j]

\* C19: linear_assignment returns only pairs with cost <= thresh, no row and
\* no column in two pairs, so at most min(rows, cols) pairs, and every row
\* and column that is in no pair exactly once as unmatched.
C19_Assignment ==
  last_call.name = "linear_assignment" =>
    LET r == last_call.ret
        rows == List([k \in DOMAIN r.matches |-> r.matches[k][1]])
        cols == List([k \in DOMAIN r.matches |-> r.matches[k][2]])
    IN /\ \A k \in DOMAIN r.matches :
            ~FracLess(last_call.thresh, last_call.cost_matrix[rows[k]][cols[k]])
       /\ NoRepeats(rows) /\ NoRepeats(cols)
       /\ Len(r.matches) <= Min(last_call.rows, last_call.cols)
       /\ NoRepeats(r.unmatched_a) /\ NoRepeats(r.unmatched_b)
       /\ Range(r.unmatched_a) = (1..last_call.rows) \ Range(rows)
       /\ Range(r.unmatched_b) = (1..last_call.cols) \ Range(cols)

\* One pair was accepted at a cost equal to the threshold and the other row
\* and the two other columns are unmatched.
C19_Witness ==
  /\ last_call.name = "linear_assignment"
  /\ Len(last_call.ret.matches) = 1
  /\ Len(last_call.ret.unmatched_a) = 1
  /\ Len(last_call.ret.unmatched_b) = 2
  /\ FracEq(last_call.thresh,
            last_call.cost_matrix[last_call.ret.matches[1][1]][last_call.ret.matches[1][2]])

C21_NeverRaisesStoresValid ==
  last_call.name \in {"__init__", "update_config"} =>
    /\ ~last_call.raised
    /\ validate(trigger_zone.config)
    /\ validate(last_call.config) => trigger_zone.config = last_call.config

\* The same for percentages that are numbers: no call raises, the stored
\* configuration is valid, a valid one is stored unchanged.
C21_NumbersNeverRaise ==
  (/\ last_call.name \in {"__init__", "update_config"}
   /\ \A f \in DOMAIN last_call.config : last_call.config[f] # NaN) =>
    /\ ~last_call.raised
    /\ validate(trigger_zone.config)
    /\ validate(last_call.config) => trigger_zone.config = last_call.config

\* floor(length * pct / 100), written without the model's int_pixels.
Floor100(length, pct) ==
  CHOOSE q \in 0..length : 100 * q <= length * pct /\ length * pct < 100 * (q + 1)

\* The rectangle the stored percentages resolve to.
Resolved ==
  LET c == trigger_zone.config
  IN [x1 |-> Floor100(trigger_zone.frame_width, c.x_offset_pct[1]),
      y1 |-> Floor100(trigger_zone.frame_height, c.y_offset_pct[1]),
      x2 |-> Floor100(trigger_zone.frame_width, c.x_offset_pct[1] + c.width_pct[1]),
      y2 |-> Floor100(trigger_zone.frame_height, c.y_offset_pct[1] + c.height_pct[1])]

\* C22: contains(x, y) is true exactly when x1 <= x <= x2 and y1 <= y <= y2 for
\* the rectangle (floor(W*xo/100), floor(H*yo/100), floor(W*(xo+w)/100),
\* floor(H*(yo+h)/100)); on a 640x480 frame with (25, 20, 50, 60) the rectangle
\* is (160, 96, 480, 384), (160, 96) is inside and (0, 0) is outside.
C22_ContainsIsInclusive ==
  /\ last_call.name = "contains_point" =>
       last_call.ret = (/\ Resolved.x1 <= last_call.x /\ last_call.x <= Resolved.x2
                        /\ Resolved.y1 <= last_call.y /\ last_call.y <= Resolved.y2)
  /\ (/\ trigger_zone.frame_width = 640 /\ trigger_zone.frame_height = 480
      /\ trigger_zone.config = ExampleConfig) =>
       /\ trigger_zone.bounds = [x1 |-> 160, y1 |-> 96, x2 |-> 480, y2 |-> 384]
       /\ contains_point2(trigger_zone, <<2 * 160, 2 * 96>>)
       /\ contains_point2(trigger_zone, <<2 * 320, 2 * 240>>)
       /\ ~contains_point2(trigger_zone, <<0, 0>>)

\* contains_point answered TRUE for the corner (4, 80) of the default zone on
\* a 7x100 frame, where 70% of 7 is 4.9.
C22_Witness ==
  /\ last_call.name = "contains_point" /\ last_call.ret
  /\ last_call.x = 4 /\ last_call.y = 80
  /\ trigger_zone.frame_width = 7 /\ trigger_zone.config = DefaultZoneConfig

\* The predicted labels (probability > 0.5) of a category, in the state after
\* label resolution.
Hits(col) ==
  {l \in Range(last_call.mapping_dict[col]) :
     class_proba_get(MlbClasses, last_call.Y_proba, l) > 500}

\* The labels of a category whose probability is the category's highest.
Highest(col) ==
  {l \in Range(last_call.mapping_dict[col]) :
     \A m \in Range(last_call.mapping_dict[col]) :
       class_proba_get(MlbClasses, last_call.Y_proba, m)
         <= class_proba_get(MlbClasses, last_call.Y_proba, l)}

Annotated(l) ==
  l \o " (" \o format_percent(class_proba_get(MlbClasses, last_call.Y_proba, l)) \o ")"

\* C23: an attribute whose category holds exactly one predicted label gets
\* exactly that label, whatever the other attributes get.
C23_SingleHitCommitted ==
  last_call.name = "final_output" =>
    \A col \in Range(LabelColumns) :
      Cardinality(Hits(col)) = 1 => last_call.final_output[col] \in Hits(col)

\* brand has one predicted label while color has two of them.
C23_Witness ==
  /\ last_call.name = "final_output"
  /\ Cardinality(Hits("brand")) = 1 /\ Cardinality(Hits("color")) = 2
  /\ last_call.final_output["brand"] = "Cleo"

\* C24: an attribute whose category holds no predicted label gets the
\* category's highest-probability label annotated with its percentage when
\* that probability is at least the confidence threshold, and UNKNOWN
\* otherwise.
C24_NoHitFallback ==
  last_call.name = "final_output" =>
    \A col \in Range(LabelColumns) :
      Hits(col) = {} =>
        IF \E l \in Highest(col) :
             class_proba_get(MlbClasses, last_call.Y_proba, l)
               >= last_call.confidence_threshold
        THEN \E l \in Highest(col) : last_call.final_output[col] = Annotated(l)
        ELSE last_call.final_output[col] = "UNKNOWN"

\* color has no predicted label and its best probability equals the
\* threshold 0.5; the value committed is annotated with 50.0%.
C24_Witness ==
  /\ last_call.name = "final_output"
  /\ Hits("color") = {} /\ last_call.confidence_threshold = 500
  /\ last_call.final_output["color"] = "Clear (50.0%)"

\* C25: an attribute whose category holds more than one predicted label gets
\* a CONFLICT value naming the category's highest-probability label with its
\* percentage, never a plain label.
C25_ConflictReported ==
  last_call.name = "final_output" =>
    \A col \in Range(LabelColumns) :
      Cardinality(Hits(col)) > 1 =>
        /\ \E l \in Highest(col) :
             last_call.final_output[col] = "CONFLICT -> " \o Annotated(l)
        /\ last_call.final_output[col] \notin Range(last_call.mapping_dict[col])

\* brand has two predicted labels, Aqua at 92.5% above Cleo at 50.1%.
C25_Witness ==
  /\ last_call.name = "final_output"
  /\ Cardinality(Hits("brand")) = 2
  /\ last_call.final_output["brand"] = "CONFLICT -> Aqua (92.5%)"

\* The history of an identity in a smoother; none is the empty one.
Window(sm, id) == IF id \in DOMAIN sm[1].history THEN sm[1].history[id] ELSE <<>>

\* The last n entries of a sequence, in order.
LastN(q, n) == IF Len(q) <= n THEN q ELSE SubSeq(q, Len(q) - n + 1, Len(q))

\* C26: after any sequence of smooth, clear_track and clear_all calls every
\* identity's history holds at most window_size entries, the most recent ones
\* in arrival order, and a call on one identity leaves the other histories as
\* they were.
C26_Step ==
  /\ \A id \in SmootherIds : Len(Window(temporal_smoother', id)) <= temporal_smoother'[1].window_size
  /\ temporal_smoother'[1].window_size = temporal_smoother[1].window_size
  /\ last_call'.name = "smooth" =>
       \A id \in SmootherIds :
         Window(temporal_smoother', id) =
           IF id = last_call'.track_id
           THEN LastN(Append(Window(temporal_smoother, id), last_call'.current_pred),
                      temporal_smoother[1].window_size)
           ELSE Window(temporal_smoother, id)
  /\ last_call'.name = "clear_track" =>
       \A id \in SmootherIds :
         Window(temporal_smoother', id) =
           IF id = last_call'.track_id THEN <<>> ELSE Window(temporal_smoother, id)
  /\ last_call'.name = "clear_all" =>
       \A id \in SmootherIds : Window(temporal_smoother', id) = <<>>

C26_SlidingWindow == [][C26_Step]_vars

\* A full window of 3 has slid: the entry dropped was the oldest, and the
\* other identity holds a history of its own.
C26_Witness ==
  /\ last_call.name = "smooth" /\ last_call.track_id = 1
  /\ temporal_smoother[1].window_size = 3
  /\ last_call.calls = 5
  /\ Len(Window(temporal_smoother, 1)) = 3
  /\ Len(Window(temporal_smoother, 2)) = 1

\* The number of entries of a window whose attribute key has the value v, and
\* the place where v is met first.
Votes(window, key, v) == Cardinality({k \in DOMAIN window : window[k][key] = v})
FirstMet(window, key, v) ==
  CHOOSE k \in DOMAIN window :
    window[k][key] = v /\ \A j \in 1..(k - 1) : window[j][key] # v

\* C27: smooth returns current unchanged when the history, current included,
\* has fewer than 2 entries; otherwise, for every key of the oldest entry, the
\* value occurring most often in the window, a tie going to the value met
\* first in window order.
C27_Step ==
  last_call'.name = "smooth" =>
    \E window \in {Window(temporal_smoother', last_call'.track_id)} :
      IF Len(window) < 2 THEN last_call'.ret = last_call'.current_pred
      ELSE /\ DOMAIN last_call'.ret = DOMAIN window[1]
           /\ \A key \in DOMAIN window[1] :
                \E k \in DOMAIN window :
                  /\ last_call'.ret[key] = window[k][key]
                  /\ \A j \in DOMAIN window :
                       \/ Votes(window, key, window[j][key]) < Votes(window, key, window[k][key])
                       \/ /\ Votes(window, key, window[j][key]) = Votes(window, key, window[k][key])
                          /\ FirstMet(window, key, window[k][key])
                               <= FirstMet(window, key, window[j][key])

C27_MajorityVote == [][C27_Step]_vars

\* Window 5 holds the brands Aqua, Aqua, Cleo, Aqua, Aqua and smooth returned
\* Aqua for a current prediction whose color differs from the voted one.
C27_Witness ==
  /\ last_call.name = "smooth" /\ last_call.track_id = 1
  /\ temporal_smoother[1].window_size = 5
  /\ Len(Window(temporal_smoother, 1)) = 5
  /\ [k \in 1..5 |-> Window(temporal_smoother, 1)[k].brand]
       = <<"Aqua", "Aqua", "Cleo", "Aqua", "Aqua">>
  /\ last_call.ret.brand = "Aqua"
  /\ last_call.ret.color = "Clear" /\ last_call.current_pred.color = "Blue"

\* A step of update() of the engine used on its own.
EngineStep ==
  /\ last_call'.name = "update"
  /\ byte_tracker'[Self].frame_id = byte_tracker[Self].frame_id + 1

HasId(stracks, id) == \E k \in DOMAIN stracks : stracks[k].track_id = id

\* C28: a track marked lost stays in the lost list on every later frame until
\* more than track_buffer frames have passed since its last successful match;
\* only then is it marked removed and purged.
C28_Step ==
  EngineStep =>
    \A k \in DOMAIN byte_tracker[Self].lost_stracks :
      LET t == byte_tracker[Self].lost_stracks[k]
      IN IF byte_tracker'[Self].frame_id - t.frame_id > byte_tracker[Self].track_buffer
         THEN /\ ~HasId(byte_tracker'[Self].lost_stracks, t.track_id)
              /\ HasId(byte_tracker'[Self].removed_stracks, t.track_id)
         ELSE HasId(byte_tracker'[Self].lost_stracks, t.track_id)

C28_LostKeptForBuffer == [][C28_Step]_vars

\* The stages of the update() step being taken, from the tracker before the
\* call and the detections passed to it.
Confirmed == LET Activated(t) == t.is_activated
             IN SelectSeq(byte_tracker[Self].tracked_stracks, Activated)
HighDetections ==
  LET IsHigh(d) == d.score > byte_tracker[Self].track_thresh
  IN SelectSeq(last_call'.detections, IsHigh)
LowDetections ==
  LET IsLow(d) == d.score > LowThreshPct /\ d.score <= byte_tracker[Self].track_thresh
  IN SelectSeq(last_call'.detections, IsLow)
StageA == Match(byte_tracker[Self], Confirmed, HighDetections)
LeftByStageA == Pick(Confirmed, StageA.unmatched_a)
StageB == Match(byte_tracker[Self], LeftByStageA, LowDetections)

\* IoU >= match_thresh for a track and a detection.
Overlapping(t, d) ==
  LET iou == Iou(t.tlbr, d.tlbr)
  IN 100 * iou[1] >= byte_tracker[Self].match_thresh * iou[2]

\* C29: a confirmed track that Stage A pairs with a high-confidence detection
\* is returned by update() with the same identity, the detection's rectangle
\* and score and its tracklet length increased by one; Stage A pairs a track
\* and a detection that are each other's only candidates and overlap enough.
C29_Step ==
  EngineStep =>
    \E a \in {StageA} :
      /\ \A k \in DOMAIN a.matches :
           LET t == Confirmed[a.matches[k][1]]
               d == HighDetections[a.matches[k][2]]
           IN \E j \in DOMAIN byte_tracker'[Self].tracked_stracks :
                LET r == byte_tracker'[Self].tracked_stracks[j]
                IN /\ r.track_id = t.track_id
                   /\ r.tlbr = d.tlbr /\ r.score = d.score
                   /\ r.tracklet_len = t.tracklet_len + 1
      /\ (/\ Len(Confirmed) = 1 /\ Len(HighDetections) = 1
          /\ Overlapping(Confirmed[1], HighDetections[1])) =>
           a.matches = << <<1, 1>> >>

C29_StageAUpdatesInPlace == [][C29_Step]_vars

\* The track started on BoxMid at frame 1 was matched at frame 2 and at
\* frame 3 and now carries BoxNear.
C29_Witness ==
  /\ last_call.name = "update"
  /\ \E k \in DOMAIN byte_tracker[Self].tracked_stracks :
       LET r == byte_tracker[Self].tracked_stracks[k]
       IN /\ r.track_id = 1 /\ r.start_frame = 1 /\ r.frame_id = 3
          /\ r.tracklet_len = 2 /\ r.tlbr = BoxNear /\ r.score = 90

\* C30: a confirmed track left unmatched by Stage A and paired in Stage B with
\* a low-confidence detection keeps its identity and stays in update()'s
\* output; a confirmed track matched in neither stage is absent from the
\* output and is marked lost.
C30_Step ==
  EngineStep =>
    \E b \in {StageB} :
      /\ \A k \in DOMAIN b.matches :
           LET t == LeftByStageA[b.matches[k][1]]
               d == LowDetections[b.matches[k][2]]
           IN /\ Overlapping(t, d)
              /\ \E j \in DOMAIN byte_tracker'[Self].tracked_stracks :
                   LET r == byte_tracker'[Self].tracked_stracks[j]
                   IN r.track_id = t.track_id /\ r.tlbr = d.tlbr /\ r.score = d.score
      /\ \A k \in DOMAIN b.unmatched_a :
           LET t == LeftByStageA[b.unmatched_a[k]]
           IN /\ ~HasId(byte_tracker'[Self].tracked_stracks, t.track_id)
              /\ \E j \in DOMAIN byte_tracker'[Self].lost_stracks :
                   /\ byte_tracker'[Self].lost_stracks[j].track_id = t.track_id
                   /\ ~byte_tracker'[Self].lost_stracks[j].is_activated

C30_StageBSecondChance == [][C30_Step]_vars

\* Of two tracks, one was kept by a detection of score 0.5 (Stage B) and the
\* other, matched in neither stage, is in the lost list.
C30_Witness ==
  /\ last_call.name = "update"
  /\ Len(byte_tracker[Self].tracked_stracks) = 1
  /\ byte_tracker[Self].tracked_stracks[1].score = TrackThreshPct
  /\ byte_tracker[Self].tracked_stracks[1].tracklet_len = 1
  /\ Len(byte_tracker[Self].lost_stracks) = 1
  /\ byte_tracker[Self].lost_stracks[1].frame_id = byte_tracker[Self].frame_id - 1

\* Stage C of the update() step being taken and the high-confidence
\* detections no stage has matched.
Unconfirmed == LET NotActivated(t) == ~t.is_activated
               IN SelectSeq(byte_tracker[Self].tracked_stracks, NotActivated)
LeftHigh == Pick(HighDetections, StageA.unmatched_b)
StageC == Match(byte_tracker[Self], Unconfirmed, LeftHigh)
UnmatchedHigh == Pick(LeftHigh, StageC.unmatched_b)

\* The identities the tracker holds in any of its lists.
KnownIds(bt) ==
  {bt.tracked_stracks[k].track_id : k \in DOMAIN bt.tracked_stracks}
    \cup {bt.lost_stracks[k].track_id : k \in DOMAIN bt.lost_stracks}
    \cup {bt.removed_stracks[k].track_id : k \in DOMAIN bt.removed_stracks}

\* The tracks of the output that were started by this update().
StartedNow ==
  LET Started(t) == /\ t.start_frame = byte_tracker'[Self].frame_id
                    /\ t.tracklet_len = 0
                    /\ t.track_id \notin KnownIds(byte_tracker[Self])
  IN SelectSeq(byte_tracker'[Self].tracked_stracks, Started)

\* C31: every high-confidence detection left unmatched by the matching stages
\* is in the same update()'s output as a new activated track with a fresh
\* identity, and a detection with score <= track_thresh never creates a track.
C31_Step ==
  EngineStep =>
    \E high \in {UnmatchedHigh}, started \in {StartedNow} :
      /\ \A k \in DOMAIN high :
           \E j \in DOMAIN started :
             /\ started[j].tlbr = high[k].tlbr /\ started[j].score = high[k].score
             /\ started[j].is_activated
             /\ started[j].track_id > STrack_count
      /\ \A i, j \in DOMAIN started : i # j => started[i].track_id # started[j].track_id
      /\ \A j \in DOMAIN started :
           /\ started[j].score > byte_tracker[Self].track_thresh
           /\ \E k \in DOMAIN high : high[k].tlbr = started[j].tlbr

C31_UnmatchedHighStartsTrack == [][C31_Step]_vars

\* At frame 2 one detection continued track 1 and another, of high score and
\* away from it, started track 2.
C31_Witness ==
  /\ last_call.name = "update" /\ byte_tracker[Self].frame_id = 2
  /\ Len(byte_tracker[Self].tracked_stracks) = 2
  /\ byte_tracker[Self].tracked_stracks[1].track_id = 1
  /\ byte_tracker[Self].tracked_stracks[1].tracklet_len = 1
  /\ byte_tracker[Self].tracked_stracks[2].track_id = 2
  /\ byte_tracker[Self].tracked_stracks[2].start_frame = 2
  /\ byte_tracker[Self].tracked_stracks[2].is_activated

\* The attempt counter of an identity in a tracker; 0 when it holds none.
AttemptsOf(tk, id) ==
  IF IndexOf(tk.tracks, id) = 0 THEN 0
  ELSE tk.tracks[IndexOf(tk.tracks, id)].classification_attempts

\* C32: when _classify_bottle succeeds for an object, at the end of the frame
\* the object is CLASSIFIED, its stored result is the smoother's output for
\* the resolved mapping, the cache holds an equal mapping under its identity,
\* the classification count has grown by one for it, and its attempt counter
\* is what it was.
C32_Step ==
  FrameStep =>
    \A u \in {TrackerOutput} :
      LET done == last_call'.classified \ last_call'.errors
      IN /\ pipeline'.classification_count =
              pipeline.classification_count + Cardinality(done)
         /\ \A id \in done :
              LET smoothed == smooth(temporal_smoother[1], id,
                                     last_call'.outcome[id][1]).ret
                  b == tracker'.tracks[IndexOf(tracker'.tracks, id)]
              IN /\ IndexOf(tracker'.tracks, id) # 0
                 /\ b.state = "CLASSIFIED"
                 /\ b.classification_results = Some(smoothed)
                 /\ \E e \in EntriesOf(cache', id) : e.value = smoothed
                 /\ b.classification_attempts = AttemptsOf(tracker, id)
                 /\ b.classification_attempts = AttemptsOf(u.tk, id)

C32_SuccessIsRecorded == [][C32_Step]_vars

\* An object whose first attempt had failed was classified by this frame and
\* still counts one attempt.
C32_Witness ==
  /\ last_call.name = "process_frame"
  /\ \E t \in LiveTracks :
       /\ t.track_id \in last_call.classified \ last_call.errors
       /\ t.state = "CLASSIFIED" /\ t.classification_attempts = 1
       /\ t.classification_results = last_call.outcome[t.track_id]

\* C33: the tracker and the smoother are touched only by the thread running
\* process_frame: no request handled on another thread (pipeline reset, track
\* listing) touches them while a frame is in progress.
C33_NoRequestDuringFrame ==
  last_call.name \in {"request_reset", "request_tracks"} => ~last_call.in_frame

\* C34: an object in state NEW or TRACKED with attempt counter a that is in
\* the tracker's active output with its center in the zone in each of
\* max_classification_attempts - a consecutive frames, without being dropped
\* by capacity enforcement, is CLASSIFIED or FAILED at the end of the last of
\* them.  Frame by frame: such a frame either ends with the object CLASSIFIED
\* or FAILED, or leaves it with a + 1 attempts, still below the maximum, so
\* that one frame less remains.
C34_Step ==
  FrameStep =>
    \A u \in {TrackerOutput} :
      \A k \in DOMAIN u.active :
        LET b == u.active[k]
            j == IndexOf(tracker'.tracks, b.track_id)
        IN (/\ b.state \in {"NEW", "TRACKED"}
            /\ b.classification_attempts < tracker.max_classification_attempts
            /\ CenterInZone(b.bbox)) =>
             /\ j # 0
             /\ b.track_id \in last_call'.classified
             /\ \/ tracker'.tracks[j].state \in {"CLASSIFIED", "FAILED"}
                \/ /\ tracker'.tracks[j].state = b.state
                   /\ tracker'.tracks[j].classification_attempts
                        = b.classification_attempts + 1
                   /\ tracker'.tracks[j].classification_attempts
                        < tracker.max_classification_attempts

C34_TerminalWithinAttempts == [][C34_Step]_vars

\* An object seen in the zone in the first two frames of a tracker, failing
\* both times, is FAILED with two attempts at the end of the second frame.
C34_Witness ==
  /\ last_call.name = "process_frame" /\ tracker.frame_count = 2
  /\ \E t \in LiveTracks :
       /\ t.track_id \in last_call.errors
       /\ t.state = "FAILED"
       /\ t.classification_attempts = tracker.max_classification_attempts
       /\ tracker.max_classification_attempts = 2

\* C35: an identity absent from one update()'s output is absent from every
\* later output of that tracker: a lost track is never re-associated, and an
\* object that reappears receives a new identity.  Step by step: every
\* identity of an output was in the previous output or is above every
\* identity handed out so far, and no identity the tracker has assigned and
\* that is missing from the previous output is in the next one.
C35_Step ==
  EngineStep =>
    /\ \A k \in DOMAIN byte_tracker'[Self].tracked_stracks :
         LET r == byte_tracker'[Self].tracked_stracks[k]
         IN \/ HasId(byte_tracker[Self].tracked_stracks, r.track_id)
            \/ /\ r.track_id > STrack_count
               /\ r.track_id \notin KnownIds(byte_tracker[Self])
    /\ \A id \in Range(assigned[Self]) :
         ~HasId(byte_tracker[Self].tracked_stracks, id) =>
           ~HasId(byte_tracker'[Self].tracked_stracks, id)

C35_LostNeverReturns == [][C35_Step]_vars

\* Track 1 on BoxMid was lost and removed; a detection on BoxMid at frame 3
\* started track 2.
C35_Witness ==
  /\ last_call.name = "update" /\ byte_tracker[Self].frame_id = 3
  /\ \E k \in DOMAIN byte_tracker[Self].removed_stracks :
       /\ byte_tracker[Self].removed_stracks[k].track_id = 1
       /\ byte_tracker[Self].removed_stracks[k].tlbr = BoxMid
  /\ Len(byte_tracker[Self].tracked_stracks) = 1
  /\ byte_tracker[Self].tracked_stracks[1].track_id = 2
  /\ byte_tracker[Self].tracked_stracks[1].tlbr = BoxMid
  /\ byte_tracker[Self].tracked_stracks[1].start_frame = 3

\* The frame about to be processed runs the detector.
ShouldDetect ==
  pipeline.detection_frame_counter % (pipeline.skip_frames + 1) = 0

\* C36: the first process_frame after reset() invokes the detector, so it
\* feeds no detections obtained before the reset to the association engine.
C36_Step ==
  (last_call.name = "reset" /\ FrameStep) => ShouldDetect

C36_FirstFrameAfterResetDetects == [][C36_Step]_vars

\* The STrack the engine returned for an identity, if any.
Returned(bt, track_id) ==
  LET Same(s) == s.track_id = track_id /\ s.is_activated
  IN SelectSeq(bt.tracked_stracks, Same)

\* C37: BottleTracker.update() changes neither the attempt counter nor the
\* stored result of an object that stays in self.tracks; the only state
\* change is NEW to TRACKED, so CLASSIFIED and FAILED objects keep their
\* state; an object the engine returned takes its rectangle and score.
C37_Step ==
  UpdateStep =>
    \A k \in DOMAIN tracker.tracks :
      LET old == tracker.tracks[k]
          j == IndexOf(tracker'.tracks, old.track_id)
      IN j # 0 =>
           LET new == tracker'.tracks[j]
               got == Returned(byte_tracker'[Self], old.track_id)
           IN /\ new.classification_attempts = old.classification_attempts
              /\ new.classification_results = old.classification_results
              /\ \/ new.state = old.state
                 \/ old.state = "NEW" /\ new.state = "TRACKED"
              /\ old.state \in {"CLASSIFIED", "FAILED"} => new.state = old.state
              /\ IF got # <<>>
                 THEN /\ new.bbox = got[1].tlbr
                      /\ new.confidence = got[1].score
                      /\ new.frames_since_update = 0
                 ELSE /\ new.bbox = old.bbox
                      /\ new.confidence = old.confidence
                      /\ new.frames_since_update = old.frames_since_update + 1

C37_UpdateKeepsClassification == [][C37_Step]_vars

\* After update() a CLASSIFIED object with a stored result and one attempt
\* has moved to another rectangle.
C37_Witness ==
  /\ last_call.name = "update"
  /\ tracker.frame_count = 2
  /\ \E k \in DOMAIN tracker.tracks :
       /\ tracker.tracks[k].state = "CLASSIFIED"
       /\ tracker.tracks[k].classification_results # Nil
       /\ tracker.tracks[k].classification_attempts = 1
       /\ tracker.tracks[k].frames_since_update = 0
       /\ tracker.tracks[k].bbox = BoxNear
       /\ tracker.tracks[k].confidence = 50

\* C38: smooth() is called at most once per identity between resets, so
\* every identity's window holds at most one entry (and the value smooth()
\* returns, which the tracker and the cache store, is the raw mapping).
C38_WindowsHoldOneEntry ==
  temporal_smoother # Nil =>
    \A id \in DOMAIN temporal_smoother[1].history :
      Len(temporal_smoother[1].history[id]) <= 1

\* Every label of the category is one of the classifier's classes.
AllClasses(col) == Range(last_call.mapping_dict[col]) \subseteq Range(MlbClasses)

\* The value committed for the attribute is one the fallback branch writes:
\* UNKNOWN or a label of the category annotated with its percentage.
FallbackValue(col) ==
  \/ last_call.final_output[col] = "UNKNOWN"
  \/ \E l \in Range(last_call.mapping_dict[col]) :
       last_call.final_output[col] = Annotated(l)

\* C39: when every label of a category is a classifier class, the fallback
\* branch is reached only if every probability of the category is at most
\* 0.5; with a confidence threshold above 0.5 it then commits UNKNOWN.
C39_FallbackBelowHalf ==
  last_call.name = "final_output" =>
    \A col \in Range(LabelColumns) :
      (AllClasses(col) /\ FallbackValue(col)) =>
        /\ \A l \in Range(last_call.mapping_dict[col]) :
             class_proba_get(MlbClasses, last_call.Y_proba, l) <= 500
        /\ last_call.confidence_threshold > 500 =>
             last_call.final_output[col] = "UNKNOWN"

\* brand, whose labels are all classes, has the best probability 0.5 under
\* the threshold 0.6 and is UNKNOWN.
C39_Witness ==
  /\ last_call.name = "final_output"
  /\ last_call.confidence_threshold = 600
  /\ AllClasses("brand")
  /\ class_proba_get(MlbClasses, last_call.Y_proba, "Aqua") = 500
  /\ class_proba_get(MlbClasses, last_call.Y_proba, "Cleo") = 300
  /\ last_call.final_output["brand"] = "UNKNOWN"

\* C40: at the start of every update() every track of the tracked list is
\* activated, so the unconfirmed partition is empty and Stage C neither
\* updates nor removes a track.
C40_Step ==
  EngineStep =>
    /\ \A k \in DOMAIN byte_tracker[Self].tracked_stracks :
         byte_tracker[Self].tracked_stracks[k].is_activated
    /\ Unconfirmed = <<>>
    /\ StageC.matches = <<>>
    /\ StageC.unmatched_a = <<>>

C40_StageCIdle == [][C40_Step]_vars

\* An update() has started from a tracked list holding a track begun in
\* frame 2, with a high-confidence detection left over for Stage C.
C40_Witness ==
  /\ last_call.name = "update"
  /\ byte_tracker[Self].frame_id = 3
  /\ \E k \in DOMAIN byte_tracker[Self].tracked_stracks :
       /\ byte_tracker[Self].tracked_stracks[k].start_frame = 2
       /\ byte_tracker[Self].tracked_stracks[k].tracklet_len = 1
  /\ \E k \in DOMAIN byte_tracker[Self].tracked_stracks :
       byte_tracker[Self].tracked_stracks[k].start_frame = 3

====
